---- MODULE Spec2Model ----
(***************************************************************************)
(* Verification model of the constellation sub-tile preparation core.      *)
(*                                                                         *)
(*   SpecReader   : _S3SeekableFile, the byte-range reader                 *)
(*                  (quadrant_resolver.py)                                 *)
(*   SpecExtract  : extract_all_subtiles_for_tile, the streaming           *)
(*                  extraction of one tile (extractor.py)                  *)
(*   SpecTiles    : two streaming extractions of different tiles running   *)
(*                  concurrently in one extraction_dir                     *)
(*   SpecWorkflow : process_subtiles fanning out one extract_subtile per   *)
(*                  sub-tile of a tile (workflows/pipeline.py)             *)
(*   SpecRetry    : the streaming extraction of one tile, interrupted and  *)
(*                  called again                                           *)
(*   SpecTiling   : tile footprints and sub-tile grids (tiling.py) in      *)
(*                  floating-point arithmetic, and the manifests written   *)
(*                  for them (manifest.py)                                 *)
(*   SpecIndex    : build_quadrant_index reading the quadrant footprints   *)
(*                  of the DET files (quadrant_resolver.py)                *)
(*   SpecResolve  : resolve_quadrants_for_subtile for the sub-tiles of a   *)
(*                  tile against one index (quadrant_resolver.py)          *)
(*   SpecFanout   : the quadrant index built by map_task over the DET      *)
(*                  files and merged (workflows/tasks.py), beside          *)
(*                  build_quadrant_index over the same observation index   *)
(*   SpecConsolidate : one call of extract_quadrants_fits or               *)
(*                  extract_psfs_fits (extractor.py)                       *)
(*   SpecSubset   : one call of subset_catalog (extractor.py)              *)
(*   SpecCompare  : the manifests of a tile extracted by extract_subtile   *)
(*                  in turn and by extract_all_subtiles_for_tile           *)
(*   SpecPipeline : the nodes of one execution of shear_pipeline           *)
(*                  (workflows/pipeline.py)                                *)
(***************************************************************************)
EXTENDS Integers, Sequences, FiniteSets, TLC

VARIABLES
    \* ---- _S3SeekableFile ----
    size,        \* self._size : total size of the remote object
    obj,         \* the remote object's bytes, obj[i] the byte at offset i-1
    pos,         \* self._pos
    buf,         \* self._buf : the cached window
    buf_start,   \* self._buf_start
    last,        \* the last call: its arguments, result and range requests
    \* ---- extraction ----
    manifests,   \* per tile: the input manifests, in manifest_paths order
    files,       \* the local filesystem: path -> content of each file
    dirs,        \* the directories that exist
    run,         \* per tile: where extract_all_subtiles_for_tile stands,
                 \* with its source_index and local_path, and the log of
                 \* the steps it has taken
    dl,          \* per tile: the downloads made, in order
    touched,     \* per tile: the paths the run created, wrote or deleted
    rewritten,   \* per tile: the manifests written, in order
    warm,        \* per tile: the cache files present when the run began
    task,        \* per sub-tile of tile t1: where its extract_subtile stands
    \* ---- manifest planning ----
    geo,         \* a tile being laid out: the arguments, the TileFootprint,
                 \* the sub-tile grid and the manifests written for it
    qidx,        \* build_quadrant_index: the DET files of the observation
                 \* index, the position in them and the footprints so far
    res,         \* the sub-tiles being resolved against a quadrant index
    fan,         \* the quadrant index by map_task: the work items, the
                 \* footprint file of each and the merged index
    wf,          \* one execution of shear_pipeline: the state of each node
    ext,         \* one call of extract_quadrants_fits or extract_psfs_fits
    sub_cat      \* one call of subset_catalog

readerVars == <<size, obj, pos, buf, buf_start, last>>

extractVars == <<manifests, files, dirs, run, dl, touched, rewritten, warm>>

planVars == <<geo, qidx, res, fan, wf, ext, sub_cat>>

vars == <<size, obj, pos, buf, buf_start, last,
          manifests, files, dirs, run, dl, touched, rewritten, warm, task,
          geo, qidx, res, fan, wf, ext, sub_cat>>

(***************************************************************************)
(* Bounds of the model.                                                    *)
(***************************************************************************)
\* Largest remote object, in bytes.
MaxSize == 5

\* _S3_READ_AHEAD is 64 * 1024 in the source; the model scales it down to
\* the size of its objects so that reads shorter than, equal to and longer
\* than the read-ahead all occur.
S3_READ_AHEAD == 3

Max(a, b) == IF a >= b THEN a ELSE b
Min(a, b) == IF a <= b THEN a ELSE b

\* Python's s[a:b] for 0 <= a, on a sequence s (offsets from 0).
Slice(s, a, b) ==
    LET hi == Min(b, Len(s))
    IN  IF hi <= a THEN <<>> ELSE [i \in 1..(hi - a) |-> s[a + i]]

(***************************************************************************)
(* The state of a model run in which no extraction takes place.           *)
(***************************************************************************)
Tiles == {"t1", "t2"}

NoExtraction ==
    /\ manifests = [t \in Tiles |-> <<>>]
    /\ files = <<>>
    /\ dirs = {}
    /\ run = [t \in Tiles |-> [pc |-> "idle", index |-> <<>>, si |-> 0,
                                ji |-> 0, ki |-> 0, local |-> <<>>,
                                err |-> "",
                                attempt |-> 1, log |-> <<>>]]
    /\ dl = [t \in Tiles |-> <<>>]
    /\ touched = [t \in Tiles |-> {}]
    /\ rewritten = [t \in Tiles |-> <<>>]
    /\ warm = [t \in Tiles |-> {}]
    /\ task = <<>>

(***************************************************************************)
(* The state of a model run in which no manifest is planned.               *)
(***************************************************************************)
NoIndexing == qidx = [pc |-> "idle"]
NoResolving == res = [pc |-> "idle"]
NoFanout == fan = [pc |-> "idle"]
NoWorkflow == wf = [pc |-> "idle"]
NoCalls == ext = [pc |-> "idle"] /\ sub_cat = [pc |-> "idle"]
NoPlanning ==
    /\ geo = [pc |-> "idle"]
    /\ NoIndexing
    /\ NoResolving
    /\ NoFanout
    /\ NoWorkflow
    /\ NoCalls

(***************************************************************************)
(* _S3SeekableFile                                                         *)
(***************************************************************************)

\* The bytes of the remote object. The reader never inspects a byte, so
\* every byte is labelled with its own offset: two different offsets never
\* look alike, and any misplaced byte shows.
ObjectOfSize(s) == [i \in 1..s |-> i - 1]

\* s3.get_object(Range="bytes=start-end"): the object's bytes start..end,
\* both inclusive.
GetObjectRange(start, end) == Slice(obj, start, end + 1)

NoCall == [op |-> "none", n |-> 0, whence |-> 0, p0 |-> 0, ret |-> <<>>,
           avail |-> 0, req |-> <<>>]

\* n == -1 (or None) reads to the end of the object.
EffectiveN(n) == IF n = -1 THEN size - pos ELSE n

\* The current position lies inside the cached window.
PosInWindow ==
    /\ buf # <<>>
    /\ buf_start <= pos
    /\ pos < buf_start + Len(buf)

\* How many bytes the cached window holds from the current position on
\* (0 when the position is outside the window); recorded with each call.
WindowAvail == IF PosInWindow THEN buf_start + Len(buf) - pos ELSE 0

OffsetInBufNoBase == pos

OffsetInBuf == pos - buf_start

BufferCoversNoAvail(n) == PosInWindow

\* "Fully covered by buffer": the window holds all n bytes from pos on.
BufferCovers(n) ==
    /\ PosInWindow
    /\ Len(buf) - OffsetInBuf >= n

FetchSizeNoReadAhead(n) == n

FetchSize(n) == Max(n, S3_READ_AHEAD)

FetchEnd(n) == Min(pos + FetchSize(n) - 1, size - 1)

\* read(n)
Read(n) ==
    LET n1 == EffectiveN(n) IN
    IF n1 <= 0 \/ pos >= size
    THEN /\ last' = [op |-> "read", n |-> n, whence |-> 0, p0 |-> pos,
                     ret |-> <<>>, avail |-> WindowAvail, req |-> <<>>]
         /\ UNCHANGED <<size, obj, pos, buf, buf_start>>
         /\ UNCHANGED <<extractVars, task, planVars>>
    ELSE IF BufferCovers(n1)
    THEN LET data == Slice(buf, OffsetInBuf, OffsetInBuf + n1) IN
         /\ pos' = pos + Len(data)
         /\ last' = [op |-> "read", n |-> n, whence |-> 0, p0 |-> pos,
                     ret |-> data, avail |-> WindowAvail, req |-> <<>>]
         /\ UNCHANGED <<size, obj, buf, buf_start>>
         /\ UNCHANGED <<extractVars, task, planVars>>
    ELSE LET end   == FetchEnd(n1)
             fetch == GetObjectRange(pos, end)
             data  == Slice(fetch, 0, n1)
         IN  /\ buf' = fetch
             /\ buf_start' = pos
             /\ pos' = pos + Len(data)
             /\ last' = [op |-> "read", n |-> n, whence |-> 0, p0 |-> pos,
                         ret |-> data, avail |-> WindowAvail,
                         req |-> <<[start |-> pos, end |-> end]>>]
             /\ UNCHANGED <<size, obj>>
             /\ UNCHANGED <<extractVars, task, planVars>>

ClampUpperOnly(p) == Min(p, size)

\* max(0, min(pos, size))
Clamp(p) == Max(0, Min(p, size))

SeekTarget(offset, whence) ==
    CASE whence = 0 -> offset
      [] whence = 1 -> pos + offset
      [] whence = 2 -> size + offset
      [] OTHER      -> pos

\* seek(pos, whence)
Seek(offset, whence) ==
    /\ pos' = Clamp(SeekTarget(offset, whence))
    /\ last' = [op |-> "seek", n |-> offset, whence |-> whence, p0 |-> pos,
                ret |-> <<pos'>>, avail |-> WindowAvail, req |-> <<>>]
    /\ UNCHANGED <<size, obj, buf, buf_start>>
    /\ UNCHANGED <<extractVars, task, planVars>>

\* close()
Close ==
    /\ buf' = <<>>
    /\ last' = [op |-> "close", n |-> 0, whence |-> 0, p0 |-> pos,
                ret |-> <<>>, avail |-> WindowAvail, req |-> <<>>]
    /\ UNCHANGED <<size, obj, pos, buf_start>>
    /\ UNCHANGED <<extractVars, task, planVars>>

ReadSizes == -2..(MaxSize + 1)
SeekOffsets == (0 - MaxSize - 1)..(MaxSize + 1)
Whences == 0..3

\* __init__(bucket, key, s3_client, size)
InitReader ==
    /\ size \in 0..MaxSize
    /\ obj = ObjectOfSize(size)
    /\ pos = 0
    /\ buf = <<>>
    /\ buf_start = 0
    /\ last = NoCall
    /\ NoExtraction
    /\ NoPlanning

DoRead == \E n \in ReadSizes : Read(n)
DoSeek == \E offset \in SeekOffsets, whence \in Whences : Seek(offset, whence)
DoClose == Close

NextReader ==
    \/ DoRead
    \/ DoSeek
    \/ DoClose

SpecReader == InitReader /\ [][NextReader]_vars

(***************************************************************************)
(* Claims about _S3SeekableFile, checked under SpecReader.                 *)
(***************************************************************************)

\* The byte count the last read asked for (read(-1) asks for the rest).
LastN == IF last.n = -1 THEN size - last.p0 ELSE last.n

\* C1: every read(n) with n > 0 issued at position p returns exactly the
\* object's bytes [p, min(p+n, S)) and advances the position by the number
\* of bytes returned, from the window or from a fresh request; the cached
\* window always equals the object's bytes [buf_start, buf_start+len(buf)).
C1_ReadReturnsExactBytes ==
    /\ buf = Slice(obj, buf_start, buf_start + Len(buf))
    /\ (last.op = "read" /\ last.n > 0) =>
          /\ last.ret = Slice(obj, last.p0, Min(last.p0 + last.n, size))
          /\ pos = last.p0 + Len(last.ret)

\* A read served from the middle of a window that does not start at 0.
C1_Witness ==
    /\ last.op = "read"
    /\ last.n > 0
    /\ last.req = <<>>
    /\ last.ret # <<>>
    /\ buf_start > 0
    /\ last.p0 > buf_start

\* C2: read(n) never returns more than n bytes, returns fewer than n bytes
\* only when p + n > S, and returns zero bytes, leaving the position where
\* it was, when p >= S.
C2_ReadLengthBounds ==
    last.op = "read" =>
        /\ last.n >= 0 => Len(last.ret) <= last.n
        /\ (last.n >= 0 /\ Len(last.ret) < last.n) => last.p0 + last.n > size
        /\ last.p0 >= size => (last.ret = <<>> /\ pos = last.p0)

\* A short read at the end of the object, and a read at the end proper.
C2_Witness ==
    /\ last.op = "read"
    /\ last.ret # <<>>
    /\ Len(last.ret) < last.n
    /\ pos = size

\* C3: seek(offset, whence) sets the position to offset, position+offset
\* or size+offset, clamped to [0, size], returns the new position and
\* leaves the cached window unchanged; 0 <= position <= size always holds.
C3_SeekClampsAndKeepsWindow ==
    /\ [](0 <= pos /\ pos <= size)
    /\ [][last'.op = "seek" =>
            LET t == CASE last'.whence = 0 -> last'.n
                       [] last'.whence = 1 -> pos + last'.n
                       [] last'.whence = 2 -> size + last'.n
                       [] OTHER            -> pos
                c == IF t < 0 THEN 0 ELSE IF t > size THEN size ELSE t
            IN  /\ pos' = c
                /\ last'.ret = <<c>>
                /\ buf' = buf
                /\ buf_start' = buf_start]_vars

\* A seek from the end that is clamped at 0 while a window is cached.
C3_Witness ==
    /\ last.op = "seek"
    /\ last.whence = 2
    /\ size + last.n < 0
    /\ pos = 0
    /\ last.p0 > 0
    /\ buf # <<>>

\* The single range request of the last read, as the claim describes it:
\* from the read's position, max(n, READAHEAD) bytes or up to the end of
\* the object, the fetched bytes becoming the cached window.
OneRequestAtPosition ==
    /\ Len(last.req) = 1
    /\ last.req[1].start = last.p0
    /\ last.req[1].end + 1 =
          Min(last.p0 + Max(LastN, S3_READ_AHEAD), size)
    /\ buf_start = last.p0
    /\ buf = Slice(obj, last.p0, last.req[1].end + 1)

\* C4 as stated: a read whose position is covered by the cached window
\* issues no range request; any other read issues exactly one.
C4_PositionCoveredMeansNoRequest ==
    (last.op = "read" /\ LastN > 0 /\ last.p0 < size) =>
        IF last.avail > 0 THEN last.req = <<>> ELSE OneRequestAtPosition

\* C4 amended: a read of n > 0 bytes at p < S is served without a range
\* request exactly when the cached window holds all n bytes from p on; any
\* other read, also one that starts inside the window and runs past its
\* end, issues exactly one range request.
C4_FullyCoveredMeansNoRequest ==
    (last.op = "read" /\ LastN > 0 /\ last.p0 < size) =>
        IF last.avail >= LastN THEN last.req = <<>> ELSE OneRequestAtPosition

\* A read that starts inside the window, needs more than the window holds
\* and therefore fetches.
C4_Witness ==
    /\ last.op = "read"
    /\ last.avail > 0
    /\ last.avail < LastN
    /\ Len(last.req) = 1
    /\ last.req[1].end = size - 1
    /\ LastN < S3_READ_AHEAD

(***************************************************************************)
(* Extraction: paths, manifests and the job index (extractor.py)           *)
(***************************************************************************)

\* A source path of a manifest: an s3://bucket/key URI, a path of the
\* local filesystem, or the empty string.
NoPath == [scheme |-> "", bucket |-> "", key |-> ""]
S3Uri(b, k) == [scheme |-> "s3", bucket |-> b, key |-> k]
LocalSrc(k) == [scheme |-> "file", bucket |-> "", key |-> k]

\* src_path.startswith("s3://")
IsS3(u) == u.scheme = "s3"

\* Filesystem paths are sequences of components; those below
\* extraction_dir are written relative to it.
IsRelativeTo(p, d) == Len(p) >= Len(d) /\ SubSeq(p, 1, Len(d)) = d

\* Path(src_path) of a source given as a local path.
LocalPathOf(u) == <<"data", u.key>>

CacheDirShared(t) == <<"_cache">>

\* extraction_dir / str(tile_id) / "_cache"
CacheDir(t) == <<t, "_cache">>

\* extraction_dir / str(tile_id) / f"{row}_{col}"
SubtileDir(t, sub) == <<t, sub>>

\* cache_dir / s3_key.split("/", 1)[1] : the bucket is dropped.
CachePath(t, u) == CacheDir(t) \o <<u.key>>

\* f"{obs_id}_{dither}_{ccd}"
ExposureKey(q) == q.obs_id \o "_" \o q.dither \o "_" \o q.ccd

RECURSIVE Distinct(_)
\* The elements of s in the order of their first occurrence (the key
\* order of a dict filled in the order of s).
Distinct(s) ==
    IF s = <<>> THEN <<>>
    ELSE LET r == Distinct(SubSeq(s, 1, Len(s) - 1))
             x == s[Len(s)]
         IN  IF \E i \in 1..Len(r) : r[i] = x THEN r ELSE Append(r, x)

RECURSIVE Flatten(_)
Flatten(ss) ==
    IF ss = <<>> THEN <<>>
    ELSE Flatten(SubSeq(ss, 1, Len(ss) - 1)) \o ss[Len(ss)]

\* exposure_groups: the manifest's quadrants grouped by exposure key, the
\* groups in the order in which their keys first occur.
ExposureGroups(m) ==
    LET keys == Distinct([i \in 1..Len(m.quadrants) |->
                             ExposureKey(m.quadrants[i])])
    IN  [i \in 1..Len(keys) |->
            [ekey  |-> keys[i],
             qrefs |-> SelectSeq(m.quadrants,
                                 LAMBDA q : ExposureKey(q) = keys[i])]]

\* The quadrants grouped under each exposure key of the manifest carry the
\* same four source paths.
SharedPaths(m) ==
    \A i \in 1..Len(ExposureGroups(m)) :
        LET qs == ExposureGroups(m)[i].qrefs
        IN  \A k \in 1..Len(qs) :
                /\ qs[k].sci_path = qs[1].sci_path
                /\ qs[k].bkg_path = qs[1].bkg_path
                /\ qs[k].wgt_path = qs[1].wgt_path
                /\ qs[k].psf_path = qs[1].psf_path

PsfRelUnderExposures(g) ==
    IF g.qrefs[1].psf_path # NoPath
    THEN <<"exposures", g.ekey \o "_psf.fits">> ELSE <<>>

\* The consolidated relative paths of one exposure, "" where the group's
\* first quadrant has no path of that type.
SciRel(g) == IF g.qrefs[1].sci_path # NoPath
             THEN <<"exposures", g.ekey \o "_sci.fits">> ELSE <<>>
BkgRel(g) == IF g.qrefs[1].bkg_path # NoPath
             THEN <<"exposures", g.ekey \o "_bkg.fits">> ELSE <<>>
WgtRel(g) == IF g.qrefs[1].wgt_path # NoPath
             THEN <<"exposures", g.ekey \o "_wgt.fits">> ELSE <<>>
PsfRel(g) == IF g.qrefs[1].psf_path # NoPath
             THEN <<"psf", g.ekey \o "_psf.fits">> ELSE <<>>

\* The extraction jobs one exposure group registers, in the order sci,
\* bkg, wgt, psf.
GroupJobs(d, g) ==
    LET first == g.qrefs[1]
        names == [i \in 1..Len(g.qrefs) |-> g.qrefs[i].quadrant]
        job(src, rel, psf) ==
            IF src # NoPath
            THEN <<[src |-> src, dest |-> d \o rel, names |-> names,
                    is_psf |-> psf]>>
            ELSE <<>>
    IN  job(first.sci_path, SciRel(g), FALSE)
        \o job(first.bkg_path, BkgRel(g), FALSE)
        \o job(first.wgt_path, WgtRel(g), FALSE)
        \o job(first.psf_path, PsfRel(g), TRUE)

ManifestJobs(t, m) ==
    LET gs == ExposureGroups(m)
    IN  Flatten([i \in 1..Len(gs) |-> GroupJobs(SubtileDir(t, m.sub), gs[i])])

\* Every job of every manifest, in registration order.
AllJobs(t, ms) == Flatten([i \in 1..Len(ms) |-> ManifestJobs(t, ms[i])])

\* jobs_by_dest[dest] = job : a dict keeps the place of a key it has.
PutJob(js, j) ==
    IF \E k \in 1..Len(js) : js[k].dest = j.dest
    THEN LET k == CHOOSE k \in 1..Len(js) : js[k].dest = j.dest
         IN  [js EXCEPT ![k] = j]
    ELSE Append(js, j)

\* source_index[src][dest] = (quadrant_names, is_psf)
Register(idx, j) ==
    IF \E i \in 1..Len(idx) : idx[i].src = j.src
    THEN LET i == CHOOSE i \in 1..Len(idx) : idx[i].src = j.src
         IN  [idx EXCEPT ![i].jobs = PutJob(@, j)]
    ELSE Append(idx, [src |-> j.src, jobs |-> <<j>>])

RECURSIVE BuildIndex(_)
BuildIndex(jobs) ==
    IF jobs = <<>> THEN <<>>
    ELSE Register(BuildIndex(SubSeq(jobs, 1, Len(jobs) - 1)), jobs[Len(jobs)])

\* source_index of a tile: the distinct source paths in first-use order,
\* each with its jobs.
SourceIndex(t) == BuildIndex(AllJobs(t, manifests[t]))

\* quadrant_templates[key]: the manifest's quadrants with the relative
\* paths of their exposure, group by group.
Templates(m) ==
    LET gs == ExposureGroups(m)
    IN  Flatten([i \in 1..Len(gs) |->
            [k \in 1..Len(gs[i].qrefs) |->
                [sci_path |-> SciRel(gs[i]), bkg_path |-> BkgRel(gs[i]),
                 wgt_path |-> WgtRel(gs[i]), psf_path |-> PsfRel(gs[i]),
                 quadrant |-> gs[i].qrefs[k].quadrant,
                 obs_id   |-> gs[i].qrefs[k].obs_id,
                 dither   |-> gs[i].qrefs[k].dither,
                 ccd      |-> gs[i].qrefs[k].ccd]]])

(***************************************************************************)
(* File contents.                                                          *)
(***************************************************************************)

\* The object stored under a URI (or at a local source path): a file is
\* known by the source it is a copy of.
ObjectAt(u) == [kind |-> "object", src |-> u, hdus |-> <<>>]

\* The extensions a source file holds: quadrants A and B, B without its
\* flag extension; a PSF grid holds one extension per quadrant.
HDUNames(u) ==
    IF u.key = "psf"
    THEN {"A", "B"}
    ELSE {"A.SCI", "A.RMS", "A.FLG", "B.SCI", "B.RMS"}

\* The extension names a job asks for, in order.
WantedHDUs(names, is_psf) ==
    IF is_psf THEN names
    ELSE Flatten([i \in 1..Len(names) |->
            <<names[i] \o ".SCI", names[i] \o ".RMS", names[i] \o ".FLG">>])

\* extract_quadrants_fits / extract_psfs_fits on a copy of source u: the
\* wanted extensions that exist, in request order.
ExtractedFile(u, names, is_psf) ==
    [kind |-> "extract", src |-> u,
     hdus |-> SelectSeq(WantedHDUs(names, is_psf),
                        LAMBDA h : h \in HDUNames(u))]

\* subset_catalog's output file for a copy of catalog u.
SubsetFile(u) == [kind |-> "subset", src |-> u, hdus |-> <<>>]

ManifestFile == [kind |-> "manifest", src |-> NoPath, hdus |-> <<>>]

\* The filesystem with file p written / removed.
WriteFile(fs, p, c) == [q \in (DOMAIN fs) \cup {p} |-> IF q = p THEN c ELSE fs[q]]
RemoveFiles(fs, ps) == [q \in (DOMAIN fs) \ ps |-> fs[q]]

\* d and the directories above it: mkdir(parents=True, exist_ok=True).
WithParents(d) == {SubSeq(d, 1, n) : n \in 1..Len(d)}

(***************************************************************************)
(* _ensure_local                                                           *)
(***************************************************************************)

\* One step of a run as its log keeps it: what was done, for which source
\* path, at which local or destination path, and the object whose copy the
\* step had at hand.
Event(ev, src, path, read) ==
    [ev |-> ev, src |-> src, path |-> path, read |-> read]

\* The end of a source's turn in step 2: its cached copy, if it was one, is
\* gone.
Gone(t) ==
    Event("unlink", run[t].index[run[t].si].src, run[t].local, NoPath)

\* What _ensure_local(u, cache_dir) returns and whether it downloads: a
\* local path is returned as it is; an S3 URI is downloaded to its cache
\* path unless a file already exists there.
EnsureLocalResult(t, u) ==
    IF ~IsS3(u)
    THEN [local |-> LocalPathOf(u), download |-> FALSE]
    ELSE [local |-> CachePath(t, u),
          download |-> CachePath(t, u) \notin DOMAIN files]

\* _ensure_local succeeding for tile t's run, which goes on at pcNext.
EnsureLocalOk(t, u, role, pcNext) ==
    LET r == EnsureLocalResult(t, u)
        made == WithParents(CacheDir(t)) \ dirs
    IN  /\ files' = IF r.download
                    THEN WriteFile(files, r.local, ObjectAt(u)) ELSE files
        /\ dirs' = IF r.download THEN dirs \cup made ELSE dirs
        /\ dl' = IF r.download
                 THEN [dl EXCEPT ![t] = Append(@, [uri |-> u, role |-> role])]
                 ELSE dl
        /\ touched' = IF r.download
                      THEN [touched EXCEPT ![t] = @ \cup made \cup {r.local}]
                      ELSE touched
        /\ run' = [run EXCEPT ![t].pc = pcNext, ![t].local = r.local,
                              ![t].log = Append(@, Event("ensure", u, r.local, u))]

\* s3.download_file raising (the object cannot be fetched): the exception
\* leaves _ensure_local and the extraction; the cache directory has been
\* made by then.
EnsureLocalRaises(t, u, err) ==
    LET r == EnsureLocalResult(t, u)
        made == WithParents(CacheDir(t)) \ dirs
    IN  /\ r.download
        /\ dirs' = dirs \cup made
        /\ touched' = [touched EXCEPT ![t] = @ \cup made]
        /\ run' = [run EXCEPT ![t].pc = "aborted", ![t].err = err]
        /\ UNCHANGED <<files, dl>>

(***************************************************************************)
(* extract_all_subtiles_for_tile, step by step                             *)
(***************************************************************************)

SubtileDirs(t, m) ==
    WithParents(SubtileDir(t, m.sub))
        \cup {SubtileDir(t, m.sub) \o <<"exposures">>,
              SubtileDir(t, m.sub) \o <<"psf">>}

\* Step 1: parse the manifests, make the sub-tile directories, build the
\* source index.
Start(t) ==
    LET ms   == manifests[t]
        want == UNION {SubtileDirs(t, ms[i]) : i \in 1..Len(ms)}
    IN  /\ run[t].pc = "start"
        /\ dirs' = dirs \cup want
        /\ touched' = [touched EXCEPT ![t] = @ \cup (want \ dirs)]
        /\ run' = [run EXCEPT ![t] =
                     [pc |-> IF SourceIndex(t) = <<>> THEN "cat_ensure"
                                                      ELSE "ensure",
                      index |-> SourceIndex(t),
                      si |-> 1, ji |-> 1, ki |-> 1, local |-> <<>>,
                      err |-> "", attempt |-> run[t].attempt, log |-> <<>>]]
        /\ UNCHANGED <<manifests, files, dl, rewritten, warm>>
        /\ UNCHANGED <<readerVars, task, planVars>>

\* Step 2: local_path = _ensure_local(src_path, cache_dir)
Ensure(t) ==
    /\ run[t].pc = "ensure"
    /\ EnsureLocalOk(t, run[t].index[run[t].si].src, "image", "jobs")
    /\ UNCHANGED <<manifests, rewritten, warm>>
    /\ UNCHANGED <<readerVars, task, planVars>>

EnsureFails(t) ==
    /\ run[t].pc = "ensure"
    /\ EnsureLocalRaises(t, run[t].index[run[t].si].src, "fetch")
    /\ UNCHANGED <<manifests, rewritten, warm>>
    /\ UNCHANGED <<readerVars, task, planVars>>

\* Step 2: one job of the current source: extract_quadrants_fits or
\* extract_psfs_fits from local_path into the job's destination. Opening
\* a local_path that does not exist raises.
Job(t) ==
    LET src  == run[t].index[run[t].si]
        j    == src.jobs[run[t].ji]
        lp   == run[t].local
        made == WithParents(SubSeq(j.dest, 1, Len(j.dest) - 1)) \ dirs
        ran  == Event("job", src.src, j.dest, files[lp].src)
    IN  /\ run[t].pc = "jobs"
        /\ IF lp \notin DOMAIN files
           THEN /\ dirs' = dirs \cup made
                /\ touched' = [touched EXCEPT ![t] = @ \cup made]
                /\ run' = [run EXCEPT ![t].pc = "aborted",
                                      ![t].err = "missing"]
                /\ UNCHANGED files
           ELSE /\ files' = WriteFile(files, j.dest,
                               ExtractedFile(files[lp].src, j.names, j.is_psf))
                /\ dirs' = dirs \cup made
                /\ touched' = [touched EXCEPT ![t] = @ \cup made \cup {j.dest}]
                /\ run' = IF run[t].ji < Len(src.jobs)
                          THEN [run EXCEPT ![t].ji = @ + 1,
                                           ![t].log = Append(@, ran)]
                          ELSE [run EXCEPT ![t].pc = "unlink",
                                           ![t].log = Append(@, ran)]
        /\ UNCHANGED <<manifests, dl, rewritten, warm>>
        /\ UNCHANGED <<readerVars, task, planVars>>

\* fits.open(local_path) raising on a file that cannot be opened.
JobFails(t) ==
    LET src  == run[t].index[run[t].si]
        j    == src.jobs[run[t].ji]
        made == WithParents(SubSeq(j.dest, 1, Len(j.dest) - 1)) \ dirs
    IN  /\ run[t].pc = "jobs"
        /\ run[t].local \in DOMAIN files
        /\ dirs' = dirs \cup made
        /\ touched' = [touched EXCEPT ![t] = @ \cup made]
        /\ run' = [run EXCEPT ![t].pc = "aborted", ![t].err = "open"]
        /\ UNCHANGED <<manifests, files, dl, rewritten, warm>>
        /\ UNCHANGED <<readerVars, task, planVars>>

UnlinkLocalKept(t, nextRun) ==
    /\ run' = nextRun
    /\ UNCHANGED <<files, touched>>

UnlinkLocalUnguarded(t, nextRun) ==
    LET lp == run[t].local
    IN  /\ IF lp \in DOMAIN files
           THEN /\ files' = RemoveFiles(files, {lp})
                /\ touched' = [touched EXCEPT ![t] = @ \cup {lp}]
           ELSE UNCHANGED <<files, touched>>
        /\ run' = nextRun

\* if local_path.is_relative_to(cache_dir) and local_path.exists():
\*     local_path.unlink()
UnlinkLocal(t, nextRun) ==
    LET lp == run[t].local
    IN  /\ IF IsRelativeTo(lp, CacheDir(t)) /\ lp \in DOMAIN files
           THEN /\ files' = RemoveFiles(files, {lp})
                /\ touched' = [touched EXCEPT ![t] = @ \cup {lp}]
           ELSE UNCHANGED <<files, touched>>
        /\ run' = nextRun

\* Step 2: delete the cached file after all its extractions.
Unlink(t) ==
    /\ run[t].pc = "unlink"
    /\ UnlinkLocal(t,
          IF run[t].si < Len(run[t].index)
          THEN [run EXCEPT ![t].pc = "ensure", ![t].si = @ + 1, ![t].ji = 1,
                           ![t].log = Append(@, Gone(t))]
          ELSE [run EXCEPT ![t].pc = "cat_ensure", ![t].ki = 1,
                           ![t].log = Append(@, Gone(t))])
    /\ UNCHANGED <<manifests, dirs, dl, rewritten, warm>>
    /\ UNCHANGED <<readerVars, task, planVars>>

CatalogPath(t, m) == SubtileDir(t, m.sub) \o <<"catalog.fits">>

\* Step 3: the sub-tile's catalog is made local, or there is none.
CatEnsure(t) ==
    LET m == manifests[t][run[t].ki]
    IN  /\ run[t].pc = "cat_ensure"
        /\ IF m.source_catalog = NoPath
           THEN /\ run' = [run EXCEPT ![t].pc = "write"]
                /\ UNCHANGED <<files, dirs, dl, touched>>
           ELSE EnsureLocalOk(t, m.source_catalog, "catalog", "subset")
        /\ UNCHANGED <<manifests, rewritten, warm>>
        /\ UNCHANGED <<readerVars, task, planVars>>

CatEnsureFails(t) ==
    LET m == manifests[t][run[t].ki]
    IN  /\ run[t].pc = "cat_ensure"
        /\ m.source_catalog # NoPath
        /\ EnsureLocalRaises(t, m.source_catalog, "catalog_fetch")
        /\ UNCHANGED <<manifests, rewritten, warm>>
        /\ UNCHANGED <<readerVars, task, planVars>>

\* Step 3: subset_catalog(local_catalog, ..., subtile_dir / "catalog.fits")
Subset(t) ==
    LET m  == manifests[t][run[t].ki]
        lp == run[t].local
    IN  /\ run[t].pc = "subset"
        /\ IF lp \notin DOMAIN files
           THEN /\ run' = [run EXCEPT ![t].pc = "aborted",
                                      ![t].err = "catalog_missing"]
                /\ UNCHANGED <<files, touched>>
           ELSE /\ files' = WriteFile(files, CatalogPath(t, m),
                                      SubsetFile(files[lp].src))
                /\ touched' = [touched EXCEPT ![t] = @ \cup {CatalogPath(t, m)}]
                /\ run' = [run EXCEPT ![t].pc = "cat_unlink"]
        /\ UNCHANGED <<manifests, dirs, dl, rewritten, warm>>
        /\ UNCHANGED <<readerVars, task, planVars>>

\* Table.read(catalog_path) raising on a catalog that cannot be read.
SubsetFails(t) ==
    /\ run[t].pc = "subset"
    /\ run[t].local \in DOMAIN files
    /\ run' = [run EXCEPT ![t].pc = "aborted", ![t].err = "catalog_read"]
    /\ UNCHANGED <<manifests, files, dirs, dl, touched, rewritten, warm>>
    /\ UNCHANGED <<readerVars, task, planVars>>

\* Step 3: delete the cached catalog after use.
CatUnlink(t) ==
    /\ run[t].pc = "cat_unlink"
    /\ UnlinkLocal(t, [run EXCEPT ![t].pc = "write"])
    /\ UNCHANGED <<manifests, dirs, dl, rewritten, warm>>
    /\ UNCHANGED <<readerVars, task, planVars>>

ManifestPath(t, m) == SubtileDir(t, m.sub) \o <<"manifest_local.yaml">>

\* The manifest as rewritten: the templates, the local catalog reference,
\* and the catalog whose rows gave the id lists (none without a catalog).
RewrittenManifest(t, m) ==
    [tile_id |-> t, sub |-> m.sub, sky_bounds |-> m.sky_bounds,
     quadrants |-> Templates(m),
     source_catalog |-> <<"catalog.fits">>,
     ids_from |-> IF m.source_catalog = NoPath THEN NoPath
                  ELSE files[CatalogPath(t, m)].src]

\* Step 3: new_manifest.to_yaml(subtile_dir / "manifest_local.yaml")
WriteManifest(t) ==
    LET m == manifests[t][run[t].ki]
        wrote == Event("manifest", NoPath, ManifestPath(t, m), NoPath)
    IN  /\ run[t].pc = "write"
        /\ files' = WriteFile(files, ManifestPath(t, m), ManifestFile)
        /\ touched' = [touched EXCEPT ![t] = @ \cup {ManifestPath(t, m)}]
        /\ rewritten' = [rewritten EXCEPT ![t] =
                            Append(@, RewrittenManifest(t, m))]
        /\ run' = IF run[t].ki < Len(manifests[t])
                  THEN [run EXCEPT ![t].pc = "cat_ensure", ![t].ki = @ + 1,
                                   ![t].log = Append(@, wrote)]
                  ELSE [run EXCEPT ![t].pc = "cleanup",
                                   ![t].log = Append(@, wrote)]
        /\ UNCHANGED <<manifests, dirs, dl, warm>>
        /\ UNCHANGED <<readerVars, task, planVars>>

CleanupKeepsCache(t) ==
    /\ run[t].pc = "cleanup"
    /\ run' = [run EXCEPT ![t].pc = "done"]
    /\ UNCHANGED <<manifests, files, dirs, dl, touched, rewritten, warm>>
    /\ UNCHANGED <<readerVars, task, planVars>>

\* Step 4: if cache_dir.exists(): shutil.rmtree(cache_dir)
Cleanup(t) ==
    LET goneD == {d \in dirs : IsRelativeTo(d, CacheDir(t))}
        goneF == {p \in DOMAIN files : IsRelativeTo(p, CacheDir(t))}
    IN  /\ run[t].pc = "cleanup"
        /\ IF CacheDir(t) \in dirs
           THEN /\ dirs' = dirs \ goneD
                /\ files' = RemoveFiles(files, goneF)
                /\ touched' = [touched EXCEPT ![t] = @ \cup goneD \cup goneF]
           ELSE UNCHANGED <<dirs, files, touched>>
        /\ run' = [run EXCEPT ![t].pc = "done"]
        /\ UNCHANGED <<manifests, dl, rewritten, warm>>
        /\ UNCHANGED <<readerVars, task, planVars>>

(***************************************************************************)
(* Inputs of the extraction.                                               *)
(***************************************************************************)

\* Most sub-tiles (manifests) of one tile.
MaxSubtiles == 2

\* The (row, col) keys of a tile's sub-tiles, in grid order.
SubKeys == <<"0_0", "0_1", "1_0", "1_1">>

QRef(sci, bkg, wgt, psf, quadrant, obs, dither, ccd) ==
    [sci_path |-> sci, bkg_path |-> bkg, wgt_path |-> wgt, psf_path |-> psf,
     quadrant |-> quadrant, obs_id |-> obs, dither |-> dither, ccd |-> ccd]

\* The quadrant index the manifests are resolved from, in index order:
\* every footprint of an exposure carries that exposure's paths, the PSF
\* grid is shared by the exposures of an observation, two buckets hold a
\* file under the same key, and one product is given by a local path.
IndexRefs ==
    << QRef(S3Uri("a", "det"), S3Uri("a", "bkg"), NoPath, S3Uri("a", "psf"),
            "A", "o1", "00", "1"),
       QRef(S3Uri("a", "det"), S3Uri("a", "bkg"), NoPath, S3Uri("a", "psf"),
            "B", "o1", "00", "1"),
       QRef(S3Uri("b", "det"), NoPath, LocalSrc("wgt"), S3Uri("a", "psf"),
            "A", "o1", "01", "1") >>

RECURSIVE Pick(_, _)
\* The subsequence of s at the indices in S: what a linear scan of the
\* index returns for a sub-tile overlapping exactly those footprints.
Pick(s, S) ==
    IF s = <<>> THEN <<>>
    ELSE Pick(SubSeq(s, 1, Len(s) - 1), S)
            \o (IF Len(s) \in S THEN <<s[Len(s)]>> ELSE <<>>)

\* build_quadrant_refs: the references of a manifest written without a
\* quadrant index, one per (dither, ccd) pair with a DET file, each with its
\* own files, the placeholder quadrant name and no obs_id, dither or ccd.
LegacyRefs ==
    << QRef(S3Uri("a", "det"), S3Uri("a", "bkg"), NoPath, S3Uri("a", "psf"),
            "TBD", "", "", ""),
       QRef(S3Uri("a", "det2"), NoPath, LocalSrc("wgt"), S3Uri("a", "psf"),
            "TBD", "", "", "") >>

\* The quadrant lists of a manifest: what the spatial filter picks from the
\* index, or every legacy reference.
QuadrantLists ==
    {Pick(IndexRefs, S) : S \in SUBSET (1..Len(IndexRefs))} \cup {LegacyRefs}

\* The tile's catalog: none, a remote one, a local one.
CatalogChoices == {NoPath, S3Uri("a", "cat"), LocalSrc("cat")}

\* The sky bounds of the i-th sub-tile of a row: core and extended RA/Dec
\* ranges, the extended ones wider by a margin.
SkyBoundsOf(i) ==
    [core_ra |-> <<4 * i, 4 * i + 4>>, core_dec |-> <<0, 4>>,
     extended_ra |-> <<4 * i - 1, 4 * i + 5>>, extended_dec |-> <<-1, 5>>]

\* The manifest lists of one tile: one to n sub-tiles, any quadrant list
\* each, one catalog for the tile.
ManifestLists(n, quads) ==
    UNION { { [i \in 1..k |-> [sub |-> SubKeys[i], sky_bounds |-> SkyBoundsOf(i),
                               quadrants |-> f[i],
                               source_catalog |-> cat]]
              : f \in [1..k -> quads] }
            : k \in 1..n, cat \in CatalogChoices }

\* What an earlier extract_subtile of the same tile, which deletes
\* nothing, or an aborted run may have left in the cache: nothing, or the
\* copy of one object.
WarmChoices == {{}, {S3Uri("a", "det")}}

\* The sources given as local paths exist, outside extraction_dir.
LocalSources == {LocalSrc("wgt"), LocalSrc("cat")}

NoReader ==
    /\ size = 0
    /\ obj = <<>>
    /\ pos = 0
    /\ buf = <<>>
    /\ buf_start = 0
    /\ last = NoCall

InitialFiles(w) ==
    LET ps == {LocalPathOf(u) : u \in LocalSources}
                \cup UNION {{CachePath(t, u) : u \in w[t]} : t \in Tiles}
    IN  [p \in ps |->
            IF p[1] = "data" THEN ObjectAt(LocalSrc(p[2]))
            ELSE ObjectAt(CHOOSE u \in w[p[1]] : CachePath(p[1], u) = p)]

InitialDirs(w) ==
    UNION {IF w[t] = {} THEN {} ELSE WithParents(CacheDir(t)) : t \in Tiles}

\* One tile is extracted: extract_all_subtiles_for_tile(manifest_paths,
\* extraction_dir) is called for t1.
InitExtract ==
    /\ NoReader
    /\ \E ms \in ManifestLists(MaxSubtiles, QuadrantLists) :
          manifests = [t \in Tiles |-> IF t = "t1" THEN ms ELSE <<>>]
    /\ \E w \in WarmChoices :
          warm = [t \in Tiles |-> IF t = "t1" THEN w ELSE {}]
    /\ files = InitialFiles(warm)
    /\ dirs = InitialDirs(warm)
    /\ run = [t \in Tiles |->
                [pc |-> IF t = "t1" THEN "start" ELSE "idle", index |-> <<>>,
                 si |-> 0, ji |-> 0, ki |-> 0, local |-> <<>>, err |-> "",
                 attempt |-> 1, log |-> <<>>]]
    /\ dl = [t \in Tiles |-> <<>>]
    /\ touched = [t \in Tiles |-> {}]
    /\ rewritten = [t \in Tiles |-> <<>>]
    /\ task = <<>>
    /\ NoPlanning

\* One step of tile t's extract_all_subtiles_for_tile.
TileStep(t) ==
    \/ Start(t)
    \/ Ensure(t)
    \/ EnsureFails(t)
    \/ Job(t)
    \/ JobFails(t)
    \/ Unlink(t)
    \/ CatEnsure(t)
    \/ CatEnsureFails(t)
    \/ Subset(t)
    \/ SubsetFails(t)
    \/ CatUnlink(t)
    \/ WriteManifest(t)
    \/ Cleanup(t)

NextExtract == \E t \in Tiles : TileStep(t)

SpecExtract == InitExtract /\ [][NextExtract]_vars

(***************************************************************************)
(* Claims about extract_all_subtiles_for_tile, checked under SpecExtract.  *)
(***************************************************************************)

\* The distinct remote source files the tile's quadrant references name.
ImageSources(t) ==
    LET ms == manifests[t]
    IN  {u \in UNION {UNION {{ms[i].quadrants[k].sci_path,
                              ms[i].quadrants[k].bkg_path,
                              ms[i].quadrants[k].wgt_path,
                              ms[i].quadrants[k].psf_path}
                             : k \in 1..Len(ms[i].quadrants)}
                      : i \in 1..Len(ms)} : IsS3(u)}

\* The downloads of quadrant source files, and those of one of them.
ImageDownloads(t) == SelectSeq(dl[t], LAMBDA d : d.role = "image")
DownloadsOf(t, u) ==
    Cardinality({i \in 1..Len(dl[t]) : dl[t][i] = [uri |-> u, role |-> "image"]})

\* The files in the tile's cache directory, and those found there when
\* the run began.
CachedFiles(t) == {p \in DOMAIN files : IsRelativeTo(p, <<t, "_cache">>)}
WarmPaths(t) == {<<t, "_cache", u.key>> : u \in warm[t]}

\* C5 as stated: when the extraction of a tile returns, each of the K
\* distinct remote source files its manifests name has been downloaded
\* exactly once, K downloads in all, whatever the number of sub-tiles.
C5_EachSourceDownloadedOnce ==
    \A t \in Tiles :
        /\ \A u \in ImageSources(t) : DownloadsOf(t, u) <= 1
        /\ run[t].pc = "done" =>
              /\ \A u \in ImageSources(t) : DownloadsOf(t, u) = 1
              /\ Len(ImageDownloads(t)) = Cardinality(ImageSources(t))

\* What does hold: no source is downloaded more than once, and each is
\* downloaded once when the quadrants of every exposure key share their
\* source paths and the run began with no file at the cache path of any of
\* the K sources (a file found there is used instead of a download).
C5_EachSourceDownloadedOnceFromColdCache ==
    \A t \in Tiles :
        /\ \A u \in ImageSources(t) : DownloadsOf(t, u) <= 1
        /\ (run[t].pc = "done"
            /\ \A i \in 1..Len(manifests[t]) : SharedPaths(manifests[t][i])
            /\ \A u \in ImageSources(t) : <<t, "_cache", u.key>> \notin WarmPaths(t))
           => /\ \A u \in ImageSources(t) : DownloadsOf(t, u) = 1
              /\ Len(ImageDownloads(t)) = Cardinality(ImageSources(t))

\* Two sub-tiles, four distinct remote sources, one of them feeding four
\* jobs, extracted with four downloads.
C5_Witness ==
    /\ run["t1"].pc = "done"
    /\ warm["t1"] = {}
    /\ Len(manifests["t1"]) = 2
    /\ Cardinality(ImageSources("t1")) = 4
    /\ Len(ImageDownloads("t1")) = 4
    /\ \E i \in 1..Len(run["t1"].index) : Len(run["t1"].index[i].jobs) = 4

\* C6: starting from an empty cache directory, the tile's cache directory
\* holds at most one downloaded file at every point of the extraction, and
\* none whenever a download is about to begin.
C6_AtMostOneCachedFile ==
    \A t \in Tiles :
        warm[t] = {} =>
            /\ Cardinality(CachedFiles(t)) <= 1
            /\ run[t].pc \in {"ensure", "cat_ensure"} => CachedFiles(t) = {}

\* The catalog is the one cached file, after three image sources came and
\* went.
C6_Witness ==
    /\ warm["t1"] = {}
    /\ run["t1"].pc = "subset"
    /\ run["t1"].ki = 2
    /\ Cardinality(CachedFiles("t1")) = 1
    /\ Len(ImageDownloads("t1")) >= 3

\* Source i of the index has had all its jobs run.
Processed(t, i) ==
    \/ run[t].pc \in {"ensure", "jobs", "unlink", "aborted"} /\ run[t].si > i
    \/ run[t].pc \in {"cat_ensure", "subset", "cat_unlink", "write",
                      "cleanup", "done"}

\* C7: once the last job of a source file has run, no local copy of that
\* file exists in the cache; when the extraction returns, the tile's
\* cache directory does not exist.
C7_CopiesDeletedAndCacheRemoved ==
    \A t \in Tiles :
        /\ \A i \in 1..Len(run[t].index) :
              LET u == run[t].index[i].src
              IN  (IsS3(u) /\ Processed(t, i)) =>
                     ~(/\ <<t, "_cache", u.key>> \in DOMAIN files
                       /\ files[<<t, "_cache", u.key>>].src = u)
        /\ run[t].pc = "done" =>
              /\ <<t, "_cache">> \notin dirs
              /\ CachedFiles(t) = {}

\* A run that downloaded image sources and a catalog has returned.
C7_Witness ==
    /\ run["t1"].pc = "done"
    /\ Len(ImageDownloads("t1")) >= 3
    /\ Len(dl["t1"]) > Len(ImageDownloads("t1"))
    /\ <<"t1", "_cache">> \in touched["t1"]

\* C8: a source file that cannot be fetched or opened does not abort the
\* tile: after such a failure the extraction goes on, or has written the
\* manifest of every sub-tile.
C8_SourceFailureDoesNotAbortTile ==
    \A t \in Tiles :
        run[t].err \in {"fetch", "open"} =>
            \/ Len(rewritten[t]) = Len(manifests[t])
            \/ ENABLED TileStep(t)

(***************************************************************************)
(* Two tiles extracted at once against one extraction_dir: one worker per  *)
(* tile, each running extract_all_subtiles_for_tile, their steps           *)
(* interleaved in any order.                                               *)
(***************************************************************************)

\* Both tiles overlap the same two exposures.
TileQuadrantLists == {<<IndexRefs[1], IndexRefs[3]>>}

InitTiles ==
    /\ NoReader
    /\ manifests \in [Tiles -> ManifestLists(MaxSubtiles, TileQuadrantLists)]
    /\ warm = [t \in Tiles |-> {}]
    /\ files = InitialFiles(warm)
    /\ dirs = InitialDirs(warm)
    /\ run = [t \in Tiles |->
                [pc |-> "start", index |-> <<>>,
                 si |-> 0, ji |-> 0, ki |-> 0, local |-> <<>>, err |-> "",
                 attempt |-> 1, log |-> <<>>]]
    /\ dl = [t \in Tiles |-> <<>>]
    /\ touched = [t \in Tiles |-> {}]
    /\ rewritten = [t \in Tiles |-> <<>>]
    /\ task = <<>>
    /\ NoPlanning

SpecTiles == InitTiles /\ [][NextExtract]_vars

\* What the extraction of tile t alone leaves under extraction_dir/t: per
\* sub-tile the consolidated files of its exposures, the catalog subset
\* if the tile has a catalog, and manifest_local.yaml.
OutputsAlone(t) ==
    LET ms   == manifests[t]
        jobs == AllJobs(t, ms)
        outs == {jobs[k].dest : k \in 1..Len(jobs)}
        cats == {<<t, ms[i].sub, "catalog.fits">> :
                    i \in {k \in 1..Len(ms) : ms[k].source_catalog # NoPath}}
        mans == {<<t, ms[i].sub, "manifest_local.yaml">> : i \in 1..Len(ms)}
    IN  [p \in outs \cup cats \cup mans |->
            IF p \in outs
            THEN LET j == jobs[CHOOSE k \in 1..Len(jobs) : jobs[k].dest = p]
                 IN  ExtractedFile(j.src, j.names, j.is_psf)
            ELSE IF p \in cats
            THEN SubsetFile(ms[1].source_catalog)
            ELSE ManifestFile]

\* The files under extraction_dir/t.
FilesUnder(t) ==
    LET ps == {p \in DOMAIN files : p[1] = t}
    IN  [p \in ps |-> files[p]]

\* C10: two extractions of different tiles running at once never create,
\* write or delete a common path, no extraction finds a file it cached
\* gone, and an extraction that returns leaves under its tile directory
\* exactly what it leaves when run alone, whatever the other one did.
C10_TilesShareNoPath ==
    /\ touched["t1"] \cap touched["t2"] = {}
    /\ \A t \in Tiles :
          /\ run[t].err \notin {"missing", "catalog_missing"}
          /\ run[t].pc = "done" => FilesUnder(t) = OutputsAlone(t)

\* Both extractions hold their own copy of the same remote object at the
\* same time, each having created paths.
C10_Witness ==
    /\ run["t1"].pc = "jobs"
    /\ run["t2"].pc = "unlink"
    /\ run["t1"].index[run["t1"].si].src = run["t2"].index[run["t2"].si].src
    /\ IsS3(run["t1"].index[run["t1"].si].src)
    /\ run["t1"].local \in DOMAIN files
    /\ run["t2"].local \in DOMAIN files
    /\ touched["t1"] # {}
    /\ touched["t2"] # {}

(***************************************************************************)
(* process_subtiles: one extract_subtile_task per sub-tile manifest of a   *)
(* tile. No task takes another's output, so the workflow orders none of    *)
(* them; each runs extract_subtile against the same extraction_dir. An     *)
(* extraction is followed here from one file operation to the next.        *)
(***************************************************************************)

\* The tile whose sub-tiles are fanned out.
WorkflowTile == "t1"

\* What extract_subtile makes local and extracts, in order: per exposure
\* group sci, bkg, wgt, psf, then the catalog if the manifest names one.
WorkItems(t, m) ==
    LET jobs == ManifestJobs(t, m)
    IN  [k \in 1..Len(jobs) |->
            [src |-> jobs[k].src, dest |-> jobs[k].dest,
             names |-> jobs[k].names, is_psf |-> jobs[k].is_psf,
             role |-> "image"]]
        \o (IF m.source_catalog = NoPath THEN <<>>
            ELSE <<[src |-> m.source_catalog, dest |-> CatalogPath(t, m),
                    names |-> <<>>, is_psf |-> FALSE, role |-> "catalog"]>>)

\* The task goes on to its next work item, or to writing the manifest.
Advance(i) ==
    IF task[i].wi < Len(task[i].work)
    THEN [task EXCEPT ![i].pc = "check", ![i].wi = @ + 1, ![i].local = <<>>]
    ELSE [task EXCEPT ![i].pc = "write", ![i].local = <<>>]

\* extract_subtile reads its manifest and makes the sub-tile directories.
TaskStart(i) ==
    LET m == manifests[WorkflowTile][i]
        w == WorkItems(WorkflowTile, m)
    IN  /\ task[i].pc = "start"
        /\ dirs' = dirs \cup SubtileDirs(WorkflowTile, m)
        /\ task' = [task EXCEPT ![i] =
                      [pc |-> IF w = <<>> THEN "write" ELSE "check",
                       work |-> w, wi |-> 1, local |-> <<>>]]
        /\ UNCHANGED <<manifests, files, run, dl, touched, rewritten, warm>>
        /\ UNCHANGED <<readerVars, planVars>>

\* _ensure_local up to the download: a local path is returned as it is,
\* a cached file is returned without a download, otherwise the cache
\* directory is made and the download starts.
TaskCheck(i) ==
    LET u == task[i].work[task[i].wi].src
        r == EnsureLocalResult(WorkflowTile, u)
    IN  /\ task[i].pc = "check"
        /\ dirs' = IF r.download
                   THEN dirs \cup WithParents(CacheDir(WorkflowTile))
                   ELSE dirs
        /\ task' = [task EXCEPT
                      ![i].pc = IF r.download THEN "download" ELSE "read",
                      ![i].local = r.local]
        /\ UNCHANGED <<manifests, files, run, dl, touched, rewritten, warm>>
        /\ UNCHANGED <<readerVars, planVars>>

\* s3.download_file(bucket, key, str(cached)) completes.
TaskDownload(i) ==
    LET u == task[i].work[task[i].wi].src
    IN  /\ task[i].pc = "download"
        /\ files' = WriteFile(files, task[i].local, ObjectAt(u))
        /\ dl' = [dl EXCEPT ![WorkflowTile] =
                    Append(@, [uri |-> u, role |-> task[i].work[task[i].wi].role])]
        /\ task' = [task EXCEPT ![i].pc = "read"]
        /\ UNCHANGED <<manifests, dirs, run, touched, rewritten, warm>>
        /\ UNCHANGED <<readerVars, planVars>>

\* s3.download_file raises: the task fails.
TaskDownloadFails(i) ==
    /\ task[i].pc = "download"
    /\ task' = [task EXCEPT ![i].pc = "aborted"]
    /\ UNCHANGED <<manifests, files, dirs, run, dl, touched, rewritten, warm>>
    /\ UNCHANGED <<readerVars, planVars>>

\* extract_quadrants_fits / extract_psfs_fits / subset_catalog on the
\* local file, into the item's destination.
TaskRead(i) ==
    LET it == task[i].work[task[i].wi]
        lp == task[i].local
    IN  /\ task[i].pc = "read"
        /\ IF lp \notin DOMAIN files
           THEN /\ task' = [task EXCEPT ![i].pc = "aborted"]
                /\ UNCHANGED files
           ELSE /\ files' = WriteFile(files, it.dest,
                               IF it.role = "catalog"
                               THEN SubsetFile(files[lp].src)
                               ELSE ExtractedFile(files[lp].src, it.names,
                                                  it.is_psf))
                /\ task' = Advance(i)
        /\ UNCHANGED <<manifests, dirs, run, dl, touched, rewritten, warm>>
        /\ UNCHANGED <<readerVars, planVars>>

\* fits.open / Table.read raises: the task fails.
TaskReadFails(i) ==
    /\ task[i].pc = "read"
    /\ task[i].local \in DOMAIN files
    /\ task' = [task EXCEPT ![i].pc = "aborted"]
    /\ UNCHANGED <<manifests, files, dirs, run, dl, touched, rewritten, warm>>
    /\ UNCHANGED <<readerVars, planVars>>

\* new_manifest.to_yaml(subtile_dir / "manifest_local.yaml"); the task
\* returns the sub-tile directory.
TaskWrite(i) ==
    LET m == manifests[WorkflowTile][i]
    IN  /\ task[i].pc = "write"
        /\ files' = WriteFile(files, ManifestPath(WorkflowTile, m), ManifestFile)
        /\ rewritten' = [rewritten EXCEPT ![WorkflowTile] =
                            Append(@, RewrittenManifest(WorkflowTile, m))]
        /\ task' = [task EXCEPT ![i].pc = "done"]
        /\ UNCHANGED <<manifests, dirs, run, dl, touched, warm>>
        /\ UNCHANGED <<readerVars, planVars>>

\* The sub-tiles fanned out overlap one exposure, or one more as well.
WorkflowQuadrantLists == {<<IndexRefs[1]>>, <<IndexRefs[1], IndexRefs[3]>>}

\* process_subtiles(manifest_paths, ...): a task per manifest, none
\* started yet.
InitWorkflow ==
    /\ NoReader
    /\ \E ms \in ManifestLists(MaxSubtiles, WorkflowQuadrantLists) :
          manifests = [t \in Tiles |-> IF t = WorkflowTile THEN ms ELSE <<>>]
    /\ warm = [t \in Tiles |-> {}]
    /\ files = InitialFiles(warm)
    /\ dirs = InitialDirs(warm)
    /\ run = [t \in Tiles |->
                [pc |-> "idle", index |-> <<>>, si |-> 0, ji |-> 0,
                 ki |-> 0, local |-> <<>>, err |-> "",
                 attempt |-> 1, log |-> <<>>]]
    /\ dl = [t \in Tiles |-> <<>>]
    /\ touched = [t \in Tiles |-> {}]
    /\ rewritten = [t \in Tiles |-> <<>>]
    /\ task = [i \in 1..Len(manifests[WorkflowTile]) |->
                 [pc |-> "start", work |-> <<>>, wi |-> 0, local |-> <<>>]]
    /\ NoPlanning

NextWorkflow ==
    \/ \E i \in DOMAIN task : TaskStart(i)
    \/ \E i \in DOMAIN task : TaskCheck(i)
    \/ \E i \in DOMAIN task : TaskDownload(i)
    \/ \E i \in DOMAIN task : TaskDownloadFails(i)
    \/ \E i \in DOMAIN task : TaskRead(i)
    \/ \E i \in DOMAIN task : TaskReadFails(i)
    \/ \E i \in DOMAIN task : TaskWrite(i)

SpecWorkflow == InitWorkflow /\ [][NextWorkflow]_vars

\* The cache path a task has checked and is downloading into or about to
\* read, if any.
CachePathInUse(i) ==
    IF /\ task[i].pc \in {"download", "read"}
       /\ IsRelativeTo(task[i].local, <<"t1", "_cache">>)
    THEN {task[i].local}
    ELSE {}

\* C9: no two extraction tasks of a tile are at the same time between
\* checking a path of the tile's cache directory and having read the
\* file there (downloading into it or reading it).
C9_NoTwoTasksOnOneCachePath ==
    \A i, j \in DOMAIN task :
        i # j => CachePathInUse(i) \cap CachePathInUse(j) = {}

(***************************************************************************)
(* An external executor retries the extraction of a tile: a run may be     *)
(* interrupted at any step, and the operation is called again on the same  *)
(* manifests and the same extraction_dir, with whatever the earlier run    *)
(* left on disk.                                                           *)
(***************************************************************************)

\* Most calls of the operation on one tile.
MaxAttempts == 2

\* The run is stopped where it is (worker killed, task timed out).
Interrupt(t) ==
    /\ run[t].pc \in {"ensure", "jobs", "unlink", "cat_ensure", "subset",
                      "cat_unlink", "write", "cleanup"}
    /\ run' = [run EXCEPT ![t].pc = "aborted", ![t].err = "interrupted"]
    /\ UNCHANGED <<manifests, files, dirs, dl, touched, rewritten, warm>>
    /\ UNCHANGED <<readerVars, task, planVars>>

\* extract_all_subtiles_for_tile is called again after a run that
\* returned, raised or was interrupted.
Retry(t) ==
    /\ run[t].pc \in {"aborted", "done"}
    /\ run[t].attempt < MaxAttempts
    /\ run' = [run EXCEPT ![t] =
                 [pc |-> "start", index |-> <<>>, si |-> 0, ji |-> 0,
                  ki |-> 0, local |-> <<>>, err |-> "",
                  attempt |-> run[t].attempt + 1, log |-> <<>>]]
    /\ dl' = [dl EXCEPT ![t] = <<>>]
    /\ rewritten' = [rewritten EXCEPT ![t] = <<>>]
    /\ warm' = [warm EXCEPT ![t] =
                  {files[p].src : p \in {q \in DOMAIN files :
                                           IsRelativeTo(q, CacheDir(t))}}]
    /\ UNCHANGED <<manifests, files, dirs, touched>>
    /\ UNCHANGED <<readerVars, task, planVars>>

\* The manifests retried: one exposure, or two whose detector files have
\* the same key in two buckets.
RetryQuadrantLists == {<<IndexRefs[1]>>, <<IndexRefs[1], IndexRefs[3]>>}

InitRetry ==
    /\ NoReader
    /\ \E ms \in ManifestLists(MaxSubtiles, RetryQuadrantLists) :
          manifests = [t \in Tiles |-> IF t = "t1" THEN ms ELSE <<>>]
    /\ warm = [t \in Tiles |-> {}]
    /\ files = InitialFiles(warm)
    /\ dirs = InitialDirs(warm)
    /\ run = [t \in Tiles |->
                [pc |-> IF t = "t1" THEN "start" ELSE "idle", index |-> <<>>,
                 si |-> 0, ji |-> 0, ki |-> 0, local |-> <<>>, err |-> "",
                 attempt |-> 1, log |-> <<>>]]
    /\ dl = [t \in Tiles |-> <<>>]
    /\ touched = [t \in Tiles |-> {}]
    /\ rewritten = [t \in Tiles |-> <<>>]
    /\ task = <<>>
    /\ NoPlanning

NextRetry ==
    \E t \in Tiles :
        \/ TileStep(t)
        \/ Interrupt(t)
        \/ Retry(t)

SpecRetry == InitRetry /\ [][NextRetry]_vars

\* The manifests one uninterrupted run of tile t rewrites.
RewrittenAlone(t) ==
    [i \in 1..Len(manifests[t]) |->
        [tile_id |-> t, sub |-> manifests[t][i].sub,
         sky_bounds |-> manifests[t][i].sky_bounds,
         quadrants |-> Templates(manifests[t][i]),
         source_catalog |-> <<"catalog.fits">>,
         ids_from |-> manifests[t][i].source_catalog]]

\* C11: whenever the extraction of a tile returns, after a completed run
\* or after runs interrupted at any step, the files under the tile's
\* directory and the rewritten manifests are those of one uninterrupted
\* run on the same manifests.
C11_RetryEndsLikeOneRun ==
    \A t \in Tiles :
        run[t].pc = "done" =>
            /\ FilesUnder(t) = OutputsAlone(t)
            /\ rewritten[t] = RewrittenAlone(t)

(***************************************************************************)
(* Floating-point arithmetic. The source computes in binary floating       *)
(* point (Python float): every operation returns the representable number  *)
(* nearest to the exact result, ties to the even significand. The model    *)
(* keeps that rule with a shorter significand. An angle is a whole number  *)
(* of quanta, DegScale quanta to the degree; a number is representable     *)
(* when it has at most MantBits significant bits.                          *)
(***************************************************************************)

\* Significand length (53 in the source's binary64).
MantBits == 16

\* Quanta per arcminute.
QuantaPerArcmin == 16

DegScale == 60 * QuantaPerArcmin

Abs(x) == IF x < 0 THEN -x ELSE x

RECURSIVE Pow2(_)
Pow2(n) == IF n <= 0 THEN 1 ELSE 2 * Pow2(n - 1)

RECURSIVE BitLength(_)
\* int.bit_length of n >= 0
BitLength(n) == IF n = 0 THEN 0 ELSE 1 + BitLength(n \div 2)

\* The spacing of the representable numbers at the magnitude of x.
Ulp(x) == Pow2(BitLength(Abs(x)) - MantBits)

\* The representable number nearest to num / den (den > 0), ties to even.
RoundRat(num, den) ==
    LET a == Abs(num)
        q == Ulp(a \div den)
        n == a \div (den * q)
        r == a % (den * q)
        m == IF 2 * r > den * q \/ (2 * r = den * q /\ n % 2 = 1)
             THEN n + 1 ELSE n
    IN  IF num < 0 THEN -(m * q) ELSE m * q

\* x + y, x - y, k * x (k a whole number) and x / k in floating point.
FAdd(x, y) == RoundRat(x + y, 1)
FSub(x, y) == RoundRat(x - y, 1)
FMul(k, x) == RoundRat(k * x, 1)
FDiv(x, k) == RoundRat(x, k)

(***************************************************************************)
(* tiling.py                                                               *)
(***************************************************************************)

\* A cosine is a whole number of 1/CosScale.
CosScale == 64

\* The source's threshold 1e-6 on cos(dec), scaled to the model's cosines.
CosEps == 2

\* math.cos(math.radians(dec_deg)) for the declinations of the model, in
\* whole degrees: the equator, mid declinations, one declination next to
\* the pole whose cosine is just not below the threshold, one whose
\* cosine is below it, and the poles (where the source computes 6e-17).
CosOf(deg) ==
    CASE deg = 0            -> CosScale
      [] Abs(deg) = 41      -> (3 * CosScale) \div 4
      [] Abs(deg) = 60      -> CosScale \div 2
      [] Abs(deg) = 88      -> CosEps
      [] Abs(deg) = 89      -> CosEps - 1
      [] OTHER              -> 0

RaisesValueError == [ok |-> FALSE, val |-> 0]
Returns(v) == [ok |-> TRUE, val |-> v]

\* The mutant test: only a cosine of zero or less is refused.
CosTooSmallZeroOnly(cos_dec) == cos_dec <= 0

\* if cos_dec < 1e-6
CosTooSmall(cos_dec) == cos_dec < CosEps

\* _arcmin_to_deg_ra(arcmin, dec_deg), dec_deg in quanta
ArcminToDegRa(arcmin, dec_deg) ==
    LET cos_dec == CosOf(dec_deg \div DegScale)
    IN  IF CosTooSmall(cos_dec)
        THEN RaisesValueError
        ELSE Returns(RoundRat(arcmin * DegScale * CosScale,
                              FMul(60, cos_dec)))

\* _arcmin_to_deg_dec(arcmin)
ArcminToDegDec(arcmin) == RoundRat(arcmin * DegScale, 60)

\* core_size_arcmin and extended_size_arcmin, the defaults every caller
\* uses.
CoreSizeArcmin == 30
ExtendedSizeArcmin == 32

\* The mutant range: the bounds the wrong way round.
RangeAroundSwapped(center, half) == <<FAdd(center, half), FSub(center, half)>>

\* (center - half, center + half)
RangeAround(center, half) == <<FSub(center, half), FAdd(center, half)>>

\* make_tile_footprint(tile_id, center_ra, center_dec)
MakeTileFootprint(tile_id, center_ra, center_dec) ==
    LET half_core_ra  == ArcminToDegRa(CoreSizeArcmin \div 2, center_dec)
        half_core_dec == ArcminToDegDec(CoreSizeArcmin \div 2)
        half_ext_ra   == ArcminToDegRa(ExtendedSizeArcmin \div 2, center_dec)
        half_ext_dec  == ArcminToDegDec(ExtendedSizeArcmin \div 2)
    IN  IF ~half_core_ra.ok \/ ~half_ext_ra.ok
        THEN RaisesValueError
        ELSE Returns(
               [tile_id    |-> tile_id,
                center_ra  |-> center_ra,
                center_dec |-> center_dec,
                core_ra_range  |-> RangeAround(center_ra, half_core_ra.val),
                core_dec_range |-> RangeAround(center_dec, half_core_dec),
                extended_ra_range  |-> RangeAround(center_ra, half_ext_ra.val),
                extended_dec_range |-> RangeAround(center_dec, half_ext_dec)])

\* The mutant lower bound: the step to the cell is forgotten.
CoreMinNoStep(tile_core_min, k, span) == tile_core_min

\* core_ra_min = tile_core_ra_min + col * subtile_core_ra_span, and the
\* same on the Dec axis with row.
CoreMin(tile_core_min, k, span) == FAdd(tile_core_min, FMul(k, span))

\* The mutant upper bound: half a span too short.
CoreMaxHalfSpan(core_min, span) == FAdd(core_min, FDiv(span, 2))

\* core_ra_max = core_ra_min + subtile_core_ra_span
CoreMax(core_min, span) == FAdd(core_min, span)

\* The mutant extended range: the margin is left out.
ExtendedRangeNoMargin(core_min, core_max, margin) == <<core_min, core_max>>

\* (core_min - margin, core_max + margin)
ExtendedRange(core_min, core_max, margin) ==
    <<FSub(core_min, margin), FAdd(core_max, margin)>>

\* The SubTile of (row, col): the body of the two loops.
SubTileAt(tile, grid_rows, grid_cols, margin_ra, margin_dec, row, col) ==
    LET subtile_core_ra_span ==
            FDiv(FSub(tile.core_ra_range[2], tile.core_ra_range[1]), grid_cols)
        subtile_core_dec_span ==
            FDiv(FSub(tile.core_dec_range[2], tile.core_dec_range[1]), grid_rows)
        core_ra_min  == CoreMin(tile.core_ra_range[1], col, subtile_core_ra_span)
        core_ra_max  == CoreMax(core_ra_min, subtile_core_ra_span)
        core_dec_min == CoreMin(tile.core_dec_range[1], row, subtile_core_dec_span)
        core_dec_max == CoreMax(core_dec_min, subtile_core_dec_span)
    IN  [tile_id |-> tile.tile_id, row |-> row, col |-> col,
         core_ra_range  |-> <<core_ra_min, core_ra_max>>,
         core_dec_range |-> <<core_dec_min, core_dec_max>>,
         extended_ra_range  |-> ExtendedRange(core_ra_min, core_ra_max, margin_ra),
         extended_dec_range |-> ExtendedRange(core_dec_min, core_dec_max,
                                              margin_dec),
         center_ra  |-> FDiv(FAdd(core_ra_min, core_ra_max), 2),
         center_dec |-> FDiv(FAdd(core_dec_min, core_dec_max), 2)]

\* generate_subtile_grid(tile, grid_rows, grid_cols, margin_arcmin): the
\* list of sub-tiles, row by row.
GenerateSubtileGrid(tile, grid_rows, grid_cols, margin_arcmin) ==
    LET margin_ra  == ArcminToDegRa(margin_arcmin, tile.center_dec)
        margin_dec == ArcminToDegDec(margin_arcmin)
    IN  IF ~margin_ra.ok
        THEN RaisesValueError
        ELSE Returns(
               [k \in 1..(grid_rows * grid_cols) |->
                   SubTileAt(tile, grid_rows, grid_cols, margin_ra.val,
                             margin_dec, (k - 1) \div grid_cols,
                             (k - 1) % grid_cols)])

(***************************************************************************)
(* write_manifests_for_tile, call by call: the tile's footprint            *)
(* (get_tile_by_id -> make_tile_footprint), its grid                       *)
(* (generate_subtile_grid), one manifest per sub-tile.                     *)
(***************************************************************************)

\* Most rows and most columns of a grid.
MaxGrid == 3

\* manifest_dir / str(tile_id) / f"{tile_id}_{subtile.row}_{subtile.col}.yaml"
ManifestPathOf(tile_id, row, col) ==
    <<ToString(tile_id),
      ToString(tile_id) \o "_" \o ToString(row) \o "_" \o ToString(col)
          \o ".yaml">>

\* generate_manifest(subtile, ...) written to its path: the manifest's
\* sub-tile fields.
ManifestOf(subtile) ==
    [path         |-> ManifestPathOf(subtile.tile_id, subtile.row, subtile.col),
     tile_id      |-> subtile.tile_id,
     sub_tile_row |-> subtile.row,
     sub_tile_col |-> subtile.col,
     sky_bounds   |-> [core_ra      |-> subtile.core_ra_range,
                       core_dec     |-> subtile.core_dec_range,
                       extended_ra  |-> subtile.extended_ra_range,
                       extended_dec |-> subtile.extended_dec_range]]

\* tile = get_tile_by_id(tile_id)
DoMakeTileFootprint ==
    LET r == MakeTileFootprint(geo.tile_id, geo.center_ra, geo.center_dec)
    IN  /\ geo.pc = "make"
        /\ geo' = IF r.ok THEN [geo EXCEPT !.pc = "grid", !.tile = r.val]
                          ELSE [geo EXCEPT !.pc = "failed"]
        /\ UNCHANGED <<readerVars, extractVars, task, qidx, res, fan, wf, ext, sub_cat>>

\* subtiles = generate_subtile_grid(tile, rows, cols, margin)
DoGenerateSubtileGrid ==
    LET r == GenerateSubtileGrid(geo.tile, geo.grid_rows, geo.grid_cols,
                                 geo.margin_arcmin)
    IN  /\ geo.pc = "grid"
        /\ geo' = IF r.ok THEN [geo EXCEPT !.pc = "write", !.subtiles = r.val]
                          ELSE [geo EXCEPT !.pc = "failed"]
        /\ UNCHANGED <<readerVars, extractVars, task, qidx, res, fan, wf, ext, sub_cat>>

\* for subtile in subtiles: manifest.to_yaml(path)
DoWriteManifests ==
    /\ geo.pc = "write"
    /\ geo' = [geo EXCEPT !.pc = "written",
                          !.written = [k \in 1..Len(geo.subtiles) |->
                                          ManifestOf(geo.subtiles[k])]]
    /\ UNCHANGED <<readerVars, extractVars, task, qidx, res, fan, wf, ext, sub_cat>>

\* The tile centers of the model, in whole degrees.
CenterRas == {0, 10, 300}
CenterDecs == {0, 41, -60, 88, 89, 90}
MarginsArcmin == {1, 2}

\* A TileFootprint built by its constructor, not by make_tile_footprint:
\* a box around a center at the pole.
PolarFootprint(center_ra) ==
    LET c == FMul(90, DegScale)
    IN  [tile_id    |-> 102018211,
         center_ra  |-> center_ra,
         center_dec |-> c,
         core_ra_range  |-> RangeAround(center_ra, ArcminToDegDec(15)),
         core_dec_range |-> RangeAround(c, ArcminToDegDec(15)),
         extended_ra_range  |-> RangeAround(center_ra, ArcminToDegDec(16)),
         extended_dec_range |-> RangeAround(c, ArcminToDegDec(16))]

InitTiling ==
    /\ NoReader
    /\ NoExtraction
    /\ NoIndexing
    /\ NoResolving
    /\ NoFanout
    /\ NoWorkflow
    /\ NoCalls
    /\ \E ra \in CenterRas, dec \in CenterDecs, rows \in 1..MaxGrid,
          cols \in 1..MaxGrid, margin \in MarginsArcmin, given \in BOOLEAN :
          /\ given => dec = 90 /\ ra = 0
          /\ geo = [pc |-> IF given THEN "grid" ELSE "make",
                    tile_id |-> 102018211,
                    center_ra |-> FMul(ra, DegScale),
                    center_dec |-> FMul(dec, DegScale),
                    grid_rows |-> rows, grid_cols |-> cols,
                    margin_arcmin |-> margin,
                    tile |-> IF given THEN PolarFootprint(FMul(ra, DegScale))
                             ELSE <<>>,
                    subtiles |-> <<>>,
                    written |-> <<>>]

NextTiling ==
    \/ DoMakeTileFootprint
    \/ DoGenerateSubtileGrid
    \/ DoWriteManifests

SpecTiling == InitTiling /\ [][NextTiling]_vars

(***************************************************************************)
(* Claims about the tiling, checked under SpecTiling.                      *)
(***************************************************************************)

\* A grid has been generated.
HasGrid == geo.pc \in {"write", "written"}

\* The sub-tile of (row, col) in the generated list.
Cell(row, col) == geo.subtiles[row * geo.grid_cols + col + 1]

Cells == {geo.subtiles[k] : k \in 1..Len(geo.subtiles)}

\* The least and the greatest element of a non-empty set of numbers.
MinOf(S) == CHOOSE x \in S : \A y \in S : x <= y
MaxOf(S) == CHOOSE x \in S : \A y \in S : x >= y

\* a and b agree up to rounding: they differ by at most four units in the
\* last place.
Near(a, b) == Abs(a - b) <= 4 * Ulp(Max(Abs(a), Abs(b)))

MarginRa == ArcminToDegRa(geo.margin_arcmin, geo.tile.center_dec).val
MarginDec == ArcminToDegDec(geo.margin_arcmin)

\* By how much the extended RA ranges of (row, col) and (row, col + 1)
\* overlap, and the extended Dec ranges of (row, col) and (row + 1, col).
OverlapRa(row, col) ==
    Cell(row, col).extended_ra_range[2] - Cell(row, col + 1).extended_ra_range[1]
OverlapDec(row, col) ==
    Cell(row, col).extended_dec_range[2] - Cell(row + 1, col).extended_dec_range[1]

Proper(r) == r[1] < r[2]
Contains(outer, inner) == outer[1] <= inner[1] /\ inner[2] <= outer[2]

\* The invariant of a footprint or a sub-tile.
WellFormed(f) ==
    /\ Proper(f.core_ra_range)
    /\ Proper(f.core_dec_range)
    /\ Proper(f.extended_ra_range)
    /\ Proper(f.extended_dec_range)
    /\ Contains(f.extended_ra_range, f.core_ra_range)
    /\ Contains(f.extended_dec_range, f.core_dec_range)

GridPairs == (0..(geo.grid_rows - 1)) \X (0..(geo.grid_cols - 1))

\* C15: the grid has rows x cols sub-tiles in row-major order, every
\* (row, col) once, core Dec strictly increasing in row and core RA
\* strictly increasing in col; the manifests written for it are as many,
\* with pairwise distinct (row, col) and pairwise distinct paths.
C15_RowMajorGridAndManifests ==
    /\ HasGrid =>
          /\ Len(geo.subtiles) = geo.grid_rows * geo.grid_cols
          /\ \A k \in 1..Len(geo.subtiles) :
                /\ geo.subtiles[k].row = (k - 1) \div geo.grid_cols
                /\ geo.subtiles[k].col = (k - 1) % geo.grid_cols
          /\ \A p \in GridPairs :
                Cardinality({k \in 1..Len(geo.subtiles) :
                               <<geo.subtiles[k].row, geo.subtiles[k].col>> = p}) = 1
          /\ \A k \in 1..Len(geo.subtiles) :
                <<geo.subtiles[k].row, geo.subtiles[k].col>> \in GridPairs
          /\ \A row \in 0..(geo.grid_rows - 2), col \in 0..(geo.grid_cols - 1) :
                /\ Cell(row, col).core_dec_range[1] < Cell(row + 1, col).core_dec_range[1]
                /\ Cell(row, col).core_dec_range[2] < Cell(row + 1, col).core_dec_range[2]
          /\ \A row \in 0..(geo.grid_rows - 1), col \in 0..(geo.grid_cols - 2) :
                /\ Cell(row, col).core_ra_range[1] < Cell(row, col + 1).core_ra_range[1]
                /\ Cell(row, col).core_ra_range[2] < Cell(row, col + 1).core_ra_range[2]
    /\ geo.pc = "written" =>
          /\ Len(geo.written) = geo.grid_rows * geo.grid_cols
          /\ \A j, k \in 1..Len(geo.written) :
                j # k =>
                  /\ <<geo.written[j].sub_tile_row, geo.written[j].sub_tile_col>>
                        # <<geo.written[k].sub_tile_row, geo.written[k].sub_tile_col>>
                  /\ geo.written[j].path # geo.written[k].path

\* The manifests of a 2 x 3 grid have been written.
C15_Witness ==
    /\ geo.pc = "written"
    /\ geo.grid_rows = 2
    /\ geo.grid_cols = 3
    /\ Len(geo.written) = 6

\* The cosine at the tile's center, and arcmin / (60 * cos(dec)) as the
\* nearest representable number.
CenterCos == CosOf(geo.center_dec \div DegScale)
ExpectedRa(arcmin) == RoundRat(arcmin * DegScale * CosScale, 60 * CenterCos)

\* A footprint that make_tile_footprint returned.
MadeFootprint == geo.tile # <<>> /\ geo.tile # PolarFootprint(geo.center_ra)

\* C16: the conversion of arcminutes to degrees of RA fails exactly when
\* |cos(dec)| is below the threshold and returns arcmin / (60 * cos(dec))
\* otherwise; when it fails, make_tile_footprint and generate_subtile_grid
\* fail with it and leave no footprint and no grid.
C16_ConversionFailsExactlyNearPole ==
    /\ geo.pc = "failed" =>
          /\ Abs(CenterCos) < CosEps
          /\ ~MadeFootprint
          /\ geo.subtiles = <<>>
          /\ geo.written = <<>>
    /\ MadeFootprint =>
          /\ ~(Abs(CenterCos) < CosEps)
          /\ geo.tile.core_ra_range =
                <<FSub(geo.center_ra, ExpectedRa(CoreSizeArcmin \div 2)),
                  FAdd(geo.center_ra, ExpectedRa(CoreSizeArcmin \div 2))>>
          /\ geo.tile.extended_ra_range =
                <<FSub(geo.center_ra, ExpectedRa(ExtendedSizeArcmin \div 2)),
                  FAdd(geo.center_ra, ExpectedRa(ExtendedSizeArcmin \div 2))>>
    /\ HasGrid =>
          /\ ~(Abs(CenterCos) < CosEps)
          /\ \A k \in 1..Len(geo.subtiles) :
                geo.subtiles[k].extended_ra_range[1] =
                    FSub(geo.subtiles[k].core_ra_range[1],
                         ExpectedRa(geo.margin_arcmin))
    /\ Abs(CenterCos) < CosEps => geo.pc \in {"make", "grid", "failed"}

\* make_tile_footprint has failed one degree from the pole, where the
\* cosine is positive and below the threshold.
C16_Witness ==
    /\ geo.pc = "failed"
    /\ geo.center_dec = FMul(89, DegScale)
    /\ geo.tile = <<>>
    /\ geo.subtiles = <<>>

\* generate_subtile_grid has failed on a footprint at the pole.
C16_WitnessGrid ==
    /\ geo.pc = "failed"
    /\ geo.tile = PolarFootprint(geo.center_ra)
    /\ geo.subtiles = <<>>

(***************************************************************************)
(* resolve_quadrants_for_subtile and footprint_overlaps                    *)
(* (quadrant_resolver.py), called by write_manifests_for_tile once per     *)
(* sub-tile with the same index.  Coordinates are whole numbers of quanta; *)
(* the code only compares them.                                            *)
(***************************************************************************)

\* Longest quadrant index.
MaxIndex == 2

\* A QuadrantFootprint as build_quadrant_index leaves it.
QuadrantFootprint(name, ra_min, ra_max, dec_min, dec_max) ==
    [quadrant |-> name,
     ra_min |-> ra_min, ra_max |-> ra_max,
     dec_min |-> dec_min, dec_max |-> dec_max,
     det_path |-> "s3://vis/" \o name \o "/DET.fits",
     bkg_path |-> "s3://vis/" \o name \o "/BKG.fits",
     wgt_path |-> "s3://vis/" \o name \o "/WGT.fits",
     psf_path |-> "s3://vis/" \o name \o "/PSF.fits",
     obs_id |-> "obs-" \o name, dither |-> "00", ccd |-> "1"]

\* SkyBounds(core_ra, core_dec, extended_ra, extended_dec)
SkyBounds(core_ra, core_dec, extended_ra, extended_dec) ==
    [core_ra |-> core_ra, core_dec |-> core_dec,
     extended_ra |-> extended_ra, extended_dec |-> extended_dec]

\* The mutant test: boxes that only touch do not overlap.
FootprintOverlapsOpen(fp, sky_bounds) ==
    LET ext_ra_min  == sky_bounds.extended_ra[1]
        ext_ra_max  == sky_bounds.extended_ra[2]
        ext_dec_min == sky_bounds.extended_dec[1]
        ext_dec_max == sky_bounds.extended_dec[2]
    IN  IF fp.ra_max <= ext_ra_min \/ fp.ra_min >= ext_ra_max
        THEN FALSE
        ELSE IF fp.dec_max <= ext_dec_min \/ fp.dec_min >= ext_dec_max
             THEN FALSE
             ELSE TRUE

\* footprint_overlaps(fp, sky_bounds)
FootprintOverlaps(fp, sky_bounds) ==
    LET ext_ra_min  == sky_bounds.extended_ra[1]
        ext_ra_max  == sky_bounds.extended_ra[2]
        ext_dec_min == sky_bounds.extended_dec[1]
        ext_dec_max == sky_bounds.extended_dec[2]
    IN  IF fp.ra_max < ext_ra_min \/ fp.ra_min > ext_ra_max
        THEN FALSE
        ELSE IF fp.dec_max < ext_dec_min \/ fp.dec_min > ext_dec_max
             THEN FALSE
             ELSE TRUE

\* The mutant reference: the placeholder quadrant of the legacy path.
QuadrantRefTbd(fp) ==
    [sci_path |-> fp.det_path, bkg_path |-> fp.bkg_path,
     wgt_path |-> fp.wgt_path, psf_path |-> fp.psf_path,
     quadrant |-> "TBD",
     obs_id |-> fp.obs_id, dither |-> fp.dither, ccd |-> fp.ccd]

\* QuadrantRef(sci_path=fp.det_path, ...)
QuadrantRef(fp) ==
    [sci_path |-> fp.det_path, bkg_path |-> fp.bkg_path,
     wgt_path |-> fp.wgt_path, psf_path |-> fp.psf_path,
     quadrant |-> fp.quadrant,
     obs_id |-> fp.obs_id, dither |-> fp.dither, ccd |-> fp.ccd]

NoOverlapCall == [fp |-> <<>>, sky_bounds |-> <<>>, ret |-> FALSE]

\* for fp in index: footprint_overlaps(fp, sky_bounds) is true:
\* refs.append(QuadrantRef(...))
ResolveAppend ==
    /\ res.pc = "scan"
    /\ res.i <= Len(res.index)
    /\ FootprintOverlaps(res.index[res.i], res.bounds[res.s])
    /\ res' = [res EXCEPT !.refs = Append(@, QuadrantRef(res.index[res.i])),
                          !.i = @ + 1,
                          !.call = [fp |-> res.index[res.i],
                                    sky_bounds |-> res.bounds[res.s],
                                    ret |-> TRUE]]
    /\ UNCHANGED <<readerVars, extractVars, task, geo, qidx, fan, wf, ext, sub_cat>>

\* for fp in index: footprint_overlaps(fp, sky_bounds) is false
ResolveSkip ==
    /\ res.pc = "scan"
    /\ res.i <= Len(res.index)
    /\ ~FootprintOverlaps(res.index[res.i], res.bounds[res.s])
    /\ res' = [res EXCEPT !.i = @ + 1,
                          !.call = [fp |-> res.index[res.i],
                                    sky_bounds |-> res.bounds[res.s],
                                    ret |-> FALSE]]
    /\ UNCHANGED <<readerVars, extractVars, task, geo, qidx, fan, wf, ext, sub_cat>>

\* return refs; the caller goes on to its next sub-tile
ResolveReturn ==
    /\ res.pc = "scan"
    /\ res.i > Len(res.index)
    /\ res' = [res EXCEPT !.out = Append(@, res.refs),
                          !.refs = <<>>,
                          !.i = 1,
                          !.call = NoOverlapCall,
                          !.s = @ + 1,
                          !.pc = IF res.s = Len(res.bounds) THEN "done"
                                 ELSE "scan"]
    /\ UNCHANGED <<readerVars, extractVars, task, geo, qidx, fan, wf, ext, sub_cat>>

\* The footprints of the model, around the sub-tiles below: inside the
\* first core, touching its extended box along an edge, clear of it,
\* touching it at a corner, in its margin only, across two sub-tiles,
\* above them, and to the right of both.
FootprintPool ==
    {QuadrantFootprint("1-1.E", 12, 15, 12, 15),
     QuadrantFootprint("1-2.F", 0, 8, 12, 15),
     QuadrantFootprint("1-3.G", 0, 7, 12, 15),
     QuadrantFootprint("2-1.H", 22, 30, 22, 30),
     QuadrantFootprint("2-2.E", 8, 9, 8, 9),
     QuadrantFootprint("2-3.F", 19, 21, 12, 15),
     QuadrantFootprint("3-1.G", 12, 15, 23, 30),
     QuadrantFootprint("3-2.H", 33, 40, 12, 15)}

Indexes ==
    UNION {[1..n -> FootprintPool] : n \in 0..MaxIndex}

\* The sub-tiles resolved in one call of write_manifests_for_tile: two
\* column-adjacent sub-tiles, and the first with a smaller core inside
\* the same extended box.
BoundsLists ==
    LET LeftBounds  == SkyBounds(<<10, 20>>, <<10, 20>>, <<8, 22>>, <<8, 22>>)
        RightBounds == SkyBounds(<<20, 30>>, <<10, 20>>, <<18, 32>>, <<8, 22>>)
        LeftBoundsSmallCore ==
            SkyBounds(<<12, 18>>, <<12, 18>>, <<8, 22>>, <<8, 22>>)
    IN  {<<LeftBounds>>, <<RightBounds>>, <<LeftBounds, RightBounds>>,
         <<RightBounds, LeftBounds>>, <<LeftBounds, LeftBoundsSmallCore>>}

InitResolve ==
    /\ NoReader
    /\ NoExtraction
    /\ geo = [pc |-> "idle"]
    /\ NoIndexing
    /\ NoFanout
    /\ NoWorkflow
    /\ NoCalls
    /\ \E index \in Indexes, bounds \in BoundsLists :
          res = [pc |-> "scan", index |-> index, given |-> index,
                 bounds |-> bounds, s |-> 1, i |-> 1, refs |-> <<>>,
                 out |-> <<>>, call |-> NoOverlapCall]

NextResolve ==
    \/ ResolveAppend
    \/ ResolveSkip
    \/ ResolveReturn

SpecResolve == InitResolve /\ [][NextResolve]_vars

\* footprint_overlaps has just been called.
OverlapCalled == res.pc = "scan" /\ res.call # NoOverlapCall

\* C17: footprint_overlaps returns false exactly when fp.ra_max <
\* ext_ra_min or fp.ra_min > ext_ra_max or fp.dec_max < ext_dec_min or
\* fp.dec_min > ext_dec_max; boxes sharing only an edge or a corner
\* overlap, and two sub-tiles with the same extended bounds get the same
\* answers whatever their cores.
C17_OverlapIsClosedBoxIntersection ==
    /\ OverlapCalled =>
          (res.call.ret = FALSE <=>
              \/ res.call.fp.ra_max  < res.call.sky_bounds.extended_ra[1]
              \/ res.call.fp.ra_min  > res.call.sky_bounds.extended_ra[2]
              \/ res.call.fp.dec_max < res.call.sky_bounds.extended_dec[1]
              \/ res.call.fp.dec_min > res.call.sky_bounds.extended_dec[2])
    /\ res.pc \in {"scan", "done"} =>
          \A a, b \in 1..Len(res.out) :
              /\ res.bounds[a].extended_ra = res.bounds[b].extended_ra
              /\ res.bounds[a].extended_dec = res.bounds[b].extended_dec
              => res.out[a] = res.out[b]

\* A footprint whose right edge is the left edge of the extended box has
\* been found to overlap.
C17_Witness ==
    /\ OverlapCalled
    /\ res.call.fp.ra_max = res.call.sky_bounds.extended_ra[1]
    /\ res.call.ret = TRUE

\* A footprint that meets the extended box in one corner only has been
\* found to overlap.
C17_WitnessCorner ==
    /\ OverlapCalled
    /\ res.call.fp.ra_min = res.call.sky_bounds.extended_ra[2]
    /\ res.call.fp.dec_min = res.call.sky_bounds.extended_dec[2]
    /\ res.call.ret = TRUE

\* The closed intervals [a1, a2] and [b1, b2] have a point in common.
Meets(a1, a2, b1, b2) == Max(a1, b1) <= Min(a2, b2)

\* The footprints of an index that meet the extended box of the bounds,
\* in index order.
Overlapping(index, b) ==
    SelectSeq(index,
              LAMBDA fp :
                  /\ Meets(fp.ra_min, fp.ra_max,
                           b.extended_ra[1], b.extended_ra[2])
                  /\ Meets(fp.dec_min, fp.dec_max,
                           b.extended_dec[1], b.extended_dec[2]))

\* What resolving the bounds alone against the index gives.
ResolvedAlone(index, b) ==
    [k \in 1..Len(Overlapping(index, b)) |->
        LET fp == Overlapping(index, b)[k]
        IN  [sci_path |-> fp.det_path, bkg_path |-> fp.bkg_path,
             wgt_path |-> fp.wgt_path, psf_path |-> fp.psf_path,
             quadrant |-> fp.quadrant, obs_id |-> fp.obs_id,
             dither |-> fp.dither, ccd |-> fp.ccd]]

\* C18: resolve_quadrants_for_subtile returns one reference for every
\* footprint of the index that overlaps the extended bounds and for no
\* other, in index order, each with the footprint's paths and ids; the
\* index stays as it was given, so every sub-tile of a sequence gets what
\* it would get alone.
C18_ResolveFiltersInIndexOrder ==
    res.pc \in {"scan", "done"} =>
        /\ res.index = res.given
        /\ \A s \in 1..Len(res.out) :
              res.out[s] = ResolvedAlone(res.given, res.bounds[s])

\* Two sub-tiles have been resolved against an index of two footprints,
\* the second keeping one that the first did not.
C18_Witness ==
    /\ res.pc = "done"
    /\ Len(res.index) = 2
    /\ Len(res.out) = 2
    /\ Len(res.out[1]) = 1
    /\ Len(res.out[2]) = 2

(***************************************************************************)
(* build_quadrant_index and read_quadrant_footprints                       *)
(* (quadrant_resolver.py): the DET files of the observation index are      *)
(* opened one after the other and the HDUs of each are visited in order.   *)
(* The world-coordinate transform of an HDU is modelled as an affine map   *)
(* from pixels to whole quanta of RA and Dec.                              *)
(***************************************************************************)

\* Most DET files in the observation index.
MaxDets == 2

\* wcs.all_pix2world([[x, y]], 0)
AllPix2World(wcs, x, y) ==
    <<wcs.crval[1] + wcs.cd[1][1] * x + wcs.cd[1][2] * y,
      wcs.crval[2] + wcs.cd[2][1] * x + wcs.cd[2][2] * y>>

\* np.min and np.max
NpMin(S) == CHOOSE x \in S : \A y \in S : x <= y
NpMax(S) == CHOOSE x \in S : \A y \in S : x >= y

\* An HDU: its name as (prefix, suffix), whether its header can be read
\* from the file, its transform and its NAXIS1, NAXIS2.
Hdu(prefix, suffix, readable, wcs, naxis1, naxis2) ==
    [name |-> <<prefix, suffix>>, readable |-> readable, wcs |-> wcs,
     naxis1 |-> naxis1, naxis2 |-> naxis2]

\* hdu.name.endswith(".SCI") and hdu.name.rsplit(".SCI", 1)[0]
EndsWithSci(name) == name[2] = ".SCI"
QuadrantOf(name) == name[1]

\* naxis1 == 0 or naxis2 == 0
ZeroSizeAxes(hdu) == hdu.naxis1 = 0 \/ hdu.naxis2 = 0

\* The footprint appended for an HDU: the box of its four corners.
FootprintOfHdu(hdu, det_path) ==
    LET corners_pix == {<<0, 0>>, <<hdu.naxis1 - 1, 0>>,
                        <<hdu.naxis1 - 1, hdu.naxis2 - 1>>,
                        <<0, hdu.naxis2 - 1>>}
        corners_sky == {AllPix2World(hdu.wcs, c[1], c[2]) : c \in corners_pix}
        ra_vals     == {c[1] : c \in corners_sky}
        dec_vals    == {c[2] : c \in corners_sky}
    IN  [quadrant |-> QuadrantOf(hdu.name),
         ra_min |-> NpMin(ra_vals), ra_max |-> NpMax(ra_vals),
         dec_min |-> NpMin(dec_vals), dec_max |-> NpMax(dec_vals),
         det_path |-> det_path,
         bkg_path |-> "", wgt_path |-> "", psf_path |-> "",
         obs_id |-> "", dither |-> "", ccd |-> ""]

\* The mutant handler: a quadrant that fails takes the footprints of its
\* file with it.
DroppedAfterQuadrantFailure(footprints) == <<>>

\* except Exception: logger.warning(...): the footprints read so far stay.
KeptAfterQuadrantFailure(footprints) == footprints

\* for fp in footprints: fp.bkg_path = bkg_path ...
Attach(footprints, det) ==
    [k \in 1..Len(footprints) |->
        [footprints[k] EXCEPT !.bkg_path = det.bkg_path,
                              !.wgt_path = det.wgt_path,
                              !.psf_path = det.psf_path,
                              !.obs_id = det.obs_id,
                              !.dither = det.dither,
                              !.ccd = det.ccd]]

CurrentDet == qidx.dets[qidx.f]

\* _open_fits(det_path, anon=anon) returns: the object can be read with
\* the kind of request _get_s3_client(anon=anon) makes, unsigned or signed.
OpensWith(det, anon) == IF anon THEN det.opens_anon ELSE det.opens_signed
CurrentHdu == CurrentDet.hdus[qidx.h]

\* read_quadrant_footprints(det_path): _open_fits succeeds
OpenDet ==
    /\ qidx.pc = "file"
    /\ qidx.f <= Len(qidx.dets)
    /\ OpensWith(CurrentDet, qidx.s3_anon)
    /\ qidx' = [qidx EXCEPT !.pc = "hdu", !.h = 1, !.footprints = <<>>]
    /\ UNCHANGED <<readerVars, extractVars, task, geo, res, fan, wf, ext, sub_cat>>

\* _open_fits raises; build_quadrant_index logs and goes on to the next
\* file
OpenDetFails ==
    /\ qidx.pc = "file"
    /\ qidx.f <= Len(qidx.dets)
    /\ ~OpensWith(CurrentDet, qidx.s3_anon)
    /\ qidx' = [qidx EXCEPT !.f = @ + 1]
    /\ UNCHANGED <<readerVars, extractVars, task, geo, res, fan, wf, ext, sub_cat>>

\* for hdu in hdul: the name does not end with .SCI
HduOther ==
    /\ qidx.pc = "hdu"
    /\ qidx.h <= Len(CurrentDet.hdus)
    /\ CurrentHdu.readable
    /\ ~EndsWithSci(CurrentHdu.name)
    /\ qidx' = [qidx EXCEPT !.h = @ + 1]
    /\ UNCHANGED <<readerVars, extractVars, task, geo, res, fan, wf, ext, sub_cat>>

\* WCS(hdu.header) or all_pix2world raises: warning, next HDU
HduWcsFails ==
    /\ qidx.pc = "hdu"
    /\ qidx.h <= Len(CurrentDet.hdus)
    /\ CurrentHdu.readable
    /\ EndsWithSci(CurrentHdu.name)
    /\ ~CurrentHdu.wcs.ok
    /\ qidx' = [qidx EXCEPT !.h = @ + 1,
                            !.footprints = KeptAfterQuadrantFailure(@)]
    /\ UNCHANGED <<readerVars, extractVars, task, geo, res, fan, wf, ext, sub_cat>>

\* zero-size axes: warning, continue
HduZeroAxes ==
    /\ qidx.pc = "hdu"
    /\ qidx.h <= Len(CurrentDet.hdus)
    /\ CurrentHdu.readable
    /\ EndsWithSci(CurrentHdu.name)
    /\ CurrentHdu.wcs.ok
    /\ ZeroSizeAxes(CurrentHdu)
    /\ qidx' = [qidx EXCEPT !.h = @ + 1]
    /\ UNCHANGED <<readerVars, extractVars, task, geo, res, fan, wf, ext, sub_cat>>

\* footprints.append(QuadrantFootprint(...))
HduAppend ==
    /\ qidx.pc = "hdu"
    /\ qidx.h <= Len(CurrentDet.hdus)
    /\ CurrentHdu.readable
    /\ EndsWithSci(CurrentHdu.name)
    /\ CurrentHdu.wcs.ok
    /\ ~ZeroSizeAxes(CurrentHdu)
    /\ qidx' = [qidx EXCEPT
                  !.h = @ + 1,
                  !.footprints =
                      Append(@, FootprintOfHdu(CurrentHdu, CurrentDet.det_path))]
    /\ UNCHANGED <<readerVars, extractVars, task, geo, res, fan, wf, ext, sub_cat>>

\* reading the next HDU from the file raises: the error leaves
\* read_quadrant_footprints, build_quadrant_index logs and goes on to the
\* next file
HduReadFails ==
    /\ qidx.pc = "hdu"
    /\ qidx.h <= Len(CurrentDet.hdus)
    /\ ~CurrentHdu.readable
    /\ qidx' = [qidx EXCEPT !.pc = "file", !.f = @ + 1, !.footprints = <<>>]
    /\ UNCHANGED <<readerVars, extractVars, task, geo, res, fan, wf, ext, sub_cat>>

\* return footprints; the paths and ids are attached and
\* all_footprints.extend(footprints)
DetDone ==
    /\ qidx.pc = "hdu"
    /\ qidx.h > Len(CurrentDet.hdus)
    /\ qidx' = [qidx EXCEPT
                  !.pc = "file", !.f = @ + 1, !.footprints = <<>>,
                  !.all_footprints = @ \o Attach(qidx.footprints, CurrentDet)]
    /\ UNCHANGED <<readerVars, extractVars, task, geo, res, fan, wf, ext, sub_cat>>

\* return all_footprints
BuildReturn ==
    /\ qidx.pc = "file"
    /\ qidx.f > Len(qidx.dets)
    /\ qidx' = [qidx EXCEPT !.pc = "done"]
    /\ UNCHANGED <<readerVars, extractVars, task, geo, res, fan, wf, ext, sub_cat>>

\* The DET files of the model: what opening each gives with unsigned and
\* with signed requests (a public object, a missing one, one in a private
\* bucket, one read without credentials) and what reading it gives.  A
\* header's transform is world = crval + cd * pixel, or one that WCS() or
\* all_pix2world() refuses.
DetContents ==
    LET Upright == [ok |-> TRUE, crval |-> <<100, 50>>,
                    cd |-> <<<<-1, 0>>, <<0, 1>>>>]
        Rotated == [ok |-> TRUE, crval |-> <<200, 50>>,
                    cd |-> <<<<1, 1>>, <<-1, 1>>>>]
        Broken  == [ok |-> FALSE, crval |-> <<0, 0>>,
                    cd |-> <<<<0, 0>>, <<0, 0>>>>]
        SciUpright   == Hdu("1-1.E", ".SCI", TRUE, Upright, 3, 3)
        SciRotated   == Hdu("1-2.F", ".SCI", TRUE, Rotated, 3, 2)
        SciBroken    == Hdu("2-1.G", ".SCI", TRUE, Broken, 3, 3)
        SciZero      == Hdu("2-2.H", ".SCI", TRUE, Upright, 0, 3)
        SciOnePixel  == Hdu("3-1.E", ".SCI", TRUE, Upright, 1, 1)
        SciOneColumn == Hdu("3-2.F", ".SCI", TRUE, Upright, 1, 3)
        Rms          == Hdu("1-1.E", ".RMS", TRUE, Upright, 3, 3)
        Primary      == Hdu("PRIMARY", "", TRUE, Broken, 0, 0)
        Unreadable   == Hdu("", "", FALSE, Broken, 0, 0)
        Open(hdus) == [opens_anon |-> TRUE, opens_signed |-> TRUE,
                       hdus |-> hdus]
    IN  {Open(<<Primary, SciUpright, Rms, SciRotated>>),
         Open(<<SciUpright, SciBroken, SciRotated>>),
         Open(<<SciZero, SciUpright>>),
         [opens_anon |-> FALSE, opens_signed |-> FALSE, hdus |-> <<>>],
         Open(<<SciUpright, Unreadable, SciRotated>>),
         Open(<<SciOnePixel, SciUpright>>),
         Open(<<SciOneColumn>>),
         Open(<<Primary>>),
         [opens_anon |-> FALSE, opens_signed |-> TRUE,
          hdus |-> <<SciUpright, SciRotated>>],
         [opens_anon |-> TRUE, opens_signed |-> FALSE,
          hdus |-> <<SciRotated>>]}

\* The k-th (obs_id, dither, ccd) of the observation index with its DET,
\* BKG, WGT and PSF paths.
DetFile(k, content) ==
    [det_path |-> <<"s3://", "vis/" \o ToString(k) \o "/DET.fits">>,
     bkg_path |-> "s3://vis/" \o ToString(k) \o "/BKG.fits",
     wgt_path |-> "s3://vis/" \o ToString(k) \o "/WGT.fits",
     psf_path |-> "s3://vis/" \o ToString(k) \o "/PSF.fits",
     obs_id |-> "obs-" \o ToString(k), dither |-> "00", ccd |-> "1",
     opens_anon |-> content.opens_anon,
     opens_signed |-> content.opens_signed, hdus |-> content.hdus]

InitIndex ==
    /\ NoReader
    /\ NoExtraction
    /\ geo = [pc |-> "idle"]
    /\ NoResolving
    /\ NoFanout
    /\ NoWorkflow
    /\ NoCalls
    /\ \E n \in 0..MaxDets, s3_anon \in BOOLEAN :
          \E contents \in [1..n -> DetContents] :
              qidx = [pc |-> "file", s3_anon |-> s3_anon,
                      dets |-> [k \in 1..n |-> DetFile(k, contents[k])],
                      f |-> 1, h |-> 1, footprints |-> <<>>,
                      all_footprints |-> <<>>]

NextIndex ==
    \/ OpenDet
    \/ OpenDetFails
    \/ HduOther
    \/ HduWcsFails
    \/ HduZeroAxes
    \/ HduAppend
    \/ HduReadFails
    \/ DetDone
    \/ BuildReturn

SpecIndex == InitIndex /\ [][NextIndex]_vars

\* The footprints read so far: those of the index and those of the file
\* being read.
Gathered ==
    IF qidx.pc = "idle" THEN {}
    ELSE {qidx.all_footprints[k] : k \in 1..Len(qidx.all_footprints)}
         \cup {qidx.footprints[k] : k \in 1..Len(qidx.footprints)}

\* C19: every footprint of the index has ra_min < ra_max and
\* dec_min < dec_max; a quadrant whose corners give no strictly positive
\* extent on both axes is left out.
C19_IndexedFootprintsHaveExtent ==
    \A fp \in Gathered : fp.ra_min < fp.ra_max /\ fp.dec_min < fp.dec_max

\* The index has been returned with the footprint of a one-pixel quadrant.
C19_DegenerateIndexed ==
    /\ qidx.pc = "done"
    /\ \E k \in 1..Len(qidx.all_footprints) :
          /\ qidx.all_footprints[k].quadrant = "3-1.E"
          /\ qidx.all_footprints[k].ra_min = qidx.all_footprints[k].ra_max

\* A file fails as a whole when it cannot be opened or one of its HDUs
\* cannot be read.
FileFails(det) ==
    ~OpensWith(det, qidx.s3_anon) \/ \E h \in 1..Len(det.hdus) : ~det.hdus[h].readable

\* A quadrant fails when its transform is refused or an axis is empty.
QuadrantFails(hdu) == ~hdu.wcs.ok \/ hdu.naxis1 = 0 \/ hdu.naxis2 = 0

\* The (det_path, quadrant, obs_id) of the footprints a best-effort index
\* of the files holds, in order.
RECURSIVE BestEffortKeys(_)
BestEffortKeys(dets) ==
    IF dets = <<>> THEN <<>>
    ELSE LET det  == Head(dets)
             good == SelectSeq(det.hdus,
                               LAMBDA hdu : /\ hdu.name[2] = ".SCI"
                                            /\ ~QuadrantFails(hdu))
             keys == [k \in 1..Len(good) |->
                         <<det.det_path, good[k].name[1], det.obs_id,
                           det.bkg_path, det.wgt_path, det.psf_path>>]
         IN  (IF FileFails(det) THEN <<>> ELSE keys)
             \o BestEffortKeys(Tail(dets))

IndexKeys ==
    [k \in 1..Len(qidx.all_footprints) |->
        LET fp == qidx.all_footprints[k]
        IN  <<fp.det_path, fp.quadrant, fp.obs_id,
              fp.bkg_path, fp.wgt_path, fp.psf_path>>]

\* C20: building the index never aborts: whatever fails, it goes on until
\* it returns, and it returns the footprints of every quadrant that did
\* not fail in every file that did not fail as a whole.
C20_IndexIsBestEffort ==
    /\ qidx.pc \in {"file", "hdu"} => ENABLED NextIndex
    /\ qidx.pc = "done" => IndexKeys = BestEffortKeys(qidx.dets)

\* The index has been returned from two files: one with a quadrant whose
\* transform failed between two good ones, one that could not be read to
\* its end.
C20_Witness ==
    /\ qidx.pc = "done"
    /\ Len(qidx.dets) = 2
    /\ [h \in 1..Len(qidx.dets[1].hdus) |-> qidx.dets[1].hdus[h].name[1]]
          = <<"1-1.E", "2-1.G", "1-2.F">>
    /\ ~qidx.dets[1].hdus[2].wcs.ok
    /\ FileFails(qidx.dets[2])
    /\ Len(qidx.all_footprints) = 2

(***************************************************************************)
(* The quadrant index by fan-out (workflows/tasks.py):                     *)
(* build_det_work_items lists the DET files, map_task runs                 *)
(* read_det_footprints once per work item, in any order, and               *)
(* merge_footprints concatenates the footprint files.  The remote objects  *)
(* are those build_quadrant_index reads: qidx.dets.                        *)
(***************************************************************************)

\* det_path.startswith("s3://")
StartsWithS3(path) == path[1] = "s3://"

\* The remote object a DET path names.
DetObject(det_path) ==
    CHOOSE det \in {qidx.dets[k] : k \in 1..Len(qidx.dets)} :
        det.det_path = det_path

\* The loop of read_quadrant_footprints over the HDUs from the h-th on,
\* with the footprints gathered before it.
RECURSIVE ReadHdus(_, _, _)
ReadHdus(det, h, footprints) ==
    IF h > Len(det.hdus) THEN Returns(footprints)
    ELSE LET hdu == det.hdus[h]
         IN  IF ~hdu.readable THEN RaisesValueError
             ELSE IF ~EndsWithSci(hdu.name)
                  THEN ReadHdus(det, h + 1, footprints)
             ELSE IF ~hdu.wcs.ok
                  THEN ReadHdus(det, h + 1,
                                KeptAfterQuadrantFailure(footprints))
             ELSE IF ZeroSizeAxes(hdu)
                  THEN ReadHdus(det, h + 1, footprints)
             ELSE ReadHdus(det, h + 1,
                           Append(footprints,
                                  FootprintOfHdu(hdu, det.det_path)))

\* read_quadrant_footprints(det_path, anon=anon) as one call
ReadQuadrantFootprints(det_path, anon) ==
    LET det == DetObject(det_path)
    IN  IF ~OpensWith(det, anon) THEN RaisesValueError
        ELSE ReadHdus(det, 1, <<>>)

\* The work item of one DET file.
WorkItem(det) ==
    [det_path |-> det.det_path, bkg_path |-> det.bkg_path,
     wgt_path |-> det.wgt_path, psf_path |-> det.psf_path,
     obs_id |-> det.obs_id, dither |-> det.dither, ccd |-> det.ccd]

\* The dict written for a footprint and read back by json.load.
FootprintDict(fp, work_item) ==
    [quadrant |-> fp.quadrant,
     ra_min |-> fp.ra_min, ra_max |-> fp.ra_max,
     dec_min |-> fp.dec_min, dec_max |-> fp.dec_max,
     det_path |-> fp.det_path,
     bkg_path |-> work_item.bkg_path, wgt_path |-> work_item.wgt_path,
     psf_path |-> work_item.psf_path, obs_id |-> work_item.obs_id,
     dither |-> work_item.dither, ccd |-> work_item.ccd]

\* s3_anon = det_path.startswith("s3://")
AnonOf(work_item) == StartsWithS3(work_item.det_path)

\* merged.extend(json.load(f)) for ff in footprint_files
Merged(footprint_files) ==
    LET RECURSIVE Cat(_)
        Cat(k) == IF k = 0 THEN <<>> ELSE Cat(k - 1) \o footprint_files[k].json
    IN  Cat(Len(footprint_files))

\* build_det_work_items(config_yaml, obs_index_dict)
BuildDetWorkItems ==
    /\ fan.pc = "items"
    /\ fan' = [fan EXCEPT
                 !.pc = "map",
                 !.work_items = [k \in 1..Len(qidx.dets) |->
                                    WorkItem(qidx.dets[k])],
                 !.files = [k \in 1..Len(qidx.dets) |->
                               [done |-> FALSE, json |-> <<>>]]]
    /\ UNCHANGED <<readerVars, extractVars, task, geo, qidx, res, wf, ext, sub_cat>>

\* read_det_footprints(work_item): the footprints are read, the paths and
\* ids attached and the JSON file written
ReadDetFootprints(k) ==
    LET work_item == fan.work_items[k]
        r == ReadQuadrantFootprints(work_item.det_path, AnonOf(work_item))
    IN  /\ fan.pc = "map"
        /\ ~fan.files[k].done
        /\ r.ok
        /\ fan' = [fan EXCEPT
                     !.files[k] =
                         [done |-> TRUE,
                          json |-> [j \in 1..Len(r.val) |->
                                       FootprintDict(r.val[j], work_item)]]]
        /\ UNCHANGED <<readerVars, extractVars, task, geo, qidx, res, wf, ext, sub_cat>>

\* read_det_footprints(work_item): read_quadrant_footprints raises,
\* footprints = [] and an empty JSON file is written
ReadDetFootprintsFails(k) ==
    LET work_item == fan.work_items[k]
        r == ReadQuadrantFootprints(work_item.det_path, AnonOf(work_item))
    IN  /\ fan.pc = "map"
        /\ ~fan.files[k].done
        /\ ~r.ok
        /\ fan' = [fan EXCEPT !.files[k] = [done |-> TRUE, json |-> <<>>]]
        /\ UNCHANGED <<readerVars, extractVars, task, geo, qidx, res, wf, ext, sub_cat>>

\* merge_footprints(footprint_files), once map_task has every file
MergeFootprints ==
    /\ fan.pc = "map"
    /\ \A k \in 1..Len(fan.files) : fan.files[k].done
    /\ fan' = [fan EXCEPT !.pc = "done", !.merged = Merged(fan.files)]
    /\ UNCHANGED <<readerVars, extractVars, task, geo, qidx, res, wf, ext, sub_cat>>

InitFanout ==
    /\ NoReader
    /\ NoExtraction
    /\ geo = [pc |-> "idle"]
    /\ NoResolving
    /\ NoWorkflow
    /\ NoCalls
    /\ \E n \in 0..MaxDets, s3_anon \in BOOLEAN :
          \E contents \in [1..n -> DetContents] :
              qidx = [pc |-> "file", s3_anon |-> s3_anon,
                      dets |-> [k \in 1..n |-> DetFile(k, contents[k])],
                      f |-> 1, h |-> 1, footprints |-> <<>>,
                      all_footprints |-> <<>>]
    /\ fan = [pc |-> "items", work_items |-> <<>>, files |-> <<>>,
              merged |-> <<>>]

NextFanout ==
    \/ NextIndex
    \/ BuildDetWorkItems
    \/ \E k \in DOMAIN fan.work_items : ReadDetFootprints(k)
    \/ \E k \in DOMAIN fan.work_items : ReadDetFootprintsFails(k)
    \/ MergeFootprints

SpecFanout == InitFanout /\ [][NextFanout]_vars

\* Both ways of building the index have returned.
BothBuilt == fan.pc = "done" /\ qidx.pc = "done"

\* C21: the merged index is the concatenation of the per-file results in
\* work-item order and equals, footprint by footprint, the index
\* build_quadrant_index returns for the same observation index, files
\* that fail included.
C21_FanoutEqualsSequential ==
    /\ fan.pc = "done" => fan.merged = Merged(fan.files)
    /\ BothBuilt => fan.merged = qidx.all_footprints

\* The same when build_quadrant_index is called with s3_anon = True.
C21_FanoutEqualsAnonymousSequential ==
    /\ fan.pc = "done" => fan.merged = Merged(fan.files)
    /\ BothBuilt /\ qidx.s3_anon => fan.merged = qidx.all_footprints

\* Both have returned for two files, one of them failing, and agree.
C21_Witness ==
    /\ BothBuilt
    /\ qidx.s3_anon
    /\ Len(qidx.dets) = 2
    /\ \E k \in 1..2 : fan.files[k].json = <<>> /\ FileFails(qidx.dets[k])
    /\ Len(fan.merged) >= 2

\* Both have returned for a file in a private bucket, read with signed
\* requests by build_quadrant_index.
C21_PrivateBucket ==
    /\ BothBuilt
    /\ ~qidx.s3_anon
    /\ Len(qidx.dets) = 1
    /\ fan.merged = <<>>
    /\ Len(qidx.all_footprints) = 2

(***************************************************************************)
(* SpecConsolidate: one call of extract_quadrants_fits or                  *)
(* extract_psfs_fits, extension by extension.                              *)
(***************************************************************************)
MaxNames == 2

SuffixesSciOnly == <<".SCI">>

\* extractor.py:107.
Suffixes == <<".SCI", ".RMS", ".FLG">>

\* The extension the loop is looking up: f"{qname}{suffix}" for an image
\* file, qname itself for a PSF grid.
HduName ==
    IF ext.is_psf
    THEN ext.quadrant_names[ext.qi]
    ELSE ext.quadrant_names[ext.qi] \o Suffixes[ext.si]

\* The loop indices after the current lookup.
NextLookup ==
    IF ext.is_psf \/ ext.si = Len(Suffixes)
    THEN [qi |-> ext.qi + 1, si |-> 1]
    ELSE [qi |-> ext.qi, si |-> ext.si + 1]

LoopDone == ext.qi > Len(ext.quadrant_names)

\* fits.open(src_path) succeeds; the new list holds only the primary HDU,
\* which is not an extension.
FitsOpen ==
    /\ ext.pc = "open"
    /\ ext.readable
    /\ ext' = [ext EXCEPT !.pc = "loop"]
    /\ UNCHANGED <<readerVars, extractVars, task, geo, qidx, res, fan, wf, sub_cat>>

\* fits.open raises: nothing is written.
FitsOpenFails ==
    /\ ext.pc = "open"
    /\ ~ext.readable
    /\ ext' = [ext EXCEPT !.pc = "raised"]
    /\ UNCHANGED <<readerVars, extractVars, task, geo, qidx, res, fan, wf, sub_cat>>

\* hdul[hdu_name] exists: it is appended under the same name.
CopyHdu ==
    /\ ext.pc = "loop"
    /\ ~LoopDone
    /\ HduName \in ext.hdul
    /\ ext' = [ext EXCEPT !.new_hdul = Append(@, HduName),
                          !.qi = NextLookup.qi, !.si = NextLookup.si]
    /\ UNCHANGED <<readerVars, extractVars, task, geo, qidx, res, fan, wf, sub_cat>>

\* hdul[hdu_name] raises KeyError: a warning, and the loop goes on.
SkipHdu ==
    /\ ext.pc = "loop"
    /\ ~LoopDone
    /\ HduName \notin ext.hdul
    /\ ext' = [ext EXCEPT !.warnings = @ + 1,
                          !.qi = NextLookup.qi, !.si = NextLookup.si]
    /\ UNCHANGED <<readerVars, extractVars, task, geo, qidx, res, fan, wf, sub_cat>>

\* new_hdul.writeto(dest_path, overwrite=True) after the loop.
Writeto ==
    /\ ext.pc = "loop"
    /\ LoopDone
    /\ ext' = [ext EXCEPT !.pc = "done", !.written = TRUE, !.dest = ext.new_hdul]
    /\ UNCHANGED <<readerVars, extractVars, task, geo, qidx, res, fan, wf, sub_cat>>

\* The sources: image files and PSF grids holding all, some or none of the
\* extensions of quadrants A and B.
SourceHdus ==
    { HDUNames(S3Uri("a", "det")), HDUNames(S3Uri("a", "psf")),
      {"A.SCI", "A.RMS", "A.FLG", "B.SCI", "B.RMS", "B.FLG"},
      {"A.SCI", "A.FLG"}, {"B"}, {} }

\* The requests: up to MaxNames names, in any order, repeated or not, some
\* naming a quadrant no source holds.
NameLists ==
    UNION { [1..n -> {"A", "B", "C"}] : n \in 0..MaxNames }

InitConsolidate ==
    /\ NoReader
    /\ NoExtraction
    /\ geo = [pc |-> "idle"]
    /\ NoIndexing
    /\ NoResolving
    /\ NoFanout
    /\ NoWorkflow
    /\ sub_cat = [pc |-> "idle"]
    /\ \E hdul \in SourceHdus, names \in NameLists,
          is_psf \in BOOLEAN, readable \in BOOLEAN :
            ext = [pc |-> "open", hdul |-> hdul, readable |-> readable,
                   quadrant_names |-> names, is_psf |-> is_psf,
                   qi |-> 1, si |-> 1, new_hdul |-> <<>>, warnings |-> 0,
                   written |-> FALSE, dest |-> <<>>]

NextConsolidate ==
    \/ FitsOpen
    \/ FitsOpenFails
    \/ CopyHdu
    \/ SkipHdu
    \/ Writeto

SpecConsolidate == InitConsolidate /\ [][NextConsolidate]_vars

\* The extensions of one requested name that the source holds, in suffix
\* order.
HeldFor(q) ==
    IF ext.is_psf
    THEN IF q \in ext.hdul THEN <<q>> ELSE <<>>
    ELSE SelectSeq(<<q \o ".SCI", q \o ".RMS", q \o ".FLG">>,
                   LAMBDA h : h \in ext.hdul)

\* C22: a consolidated extraction whose source opens never raises, whatever
\* extensions are missing, and ends by writing one output file that holds,
\* in request order, exactly the extensions q.SCI, q.RMS, q.FLG (for a PSF
\* grid the extension q) the source holds for each requested q: three per
\* name when all exist, none for a name the source does not hold.  It is the
\* file the extraction jobs of the tile are modelled to write.
C22_ConsolidatedOutputIsExistingExtensions ==
    /\ ext.pc = "raised" => ~ext.readable
    /\ ext.pc = "loop" => ENABLED NextConsolidate
    /\ ext.pc \in {"open", "loop"} => ~ext.written
    /\ ext.pc = "done" =>
        /\ ext.written
        /\ ext.dest = Flatten([i \in 1..Len(ext.quadrant_names) |->
                                  HeldFor(ext.quadrant_names[i])])
        /\ ext.dest = SelectSeq(WantedHDUs(ext.quadrant_names, ext.is_psf),
                                LAMBDA h : h \in ext.hdul)
        /\ Len(ext.dest) + ext.warnings
             = Len(WantedHDUs(ext.quadrant_names, ext.is_psf))
        /\ \A u \in {S3Uri("a", "det"), S3Uri("a", "psf")} :
              ext.hdul = HDUNames(u) =>
                ext.dest = ExtractedFile(u, ext.quadrant_names, ext.is_psf).hdus

\* An image extraction that asks for B (whose .FLG is missing), then for A
\* (complete): five extensions written, one warning.
C22_Witness ==
    /\ ext.pc = "done"
    /\ ~ext.is_psf
    /\ ext.quadrant_names = <<"B", "A">>
    /\ ext.dest = <<"B.SCI", "B.RMS", "A.SCI", "A.RMS", "A.FLG">>
    /\ ext.warnings = 1

\* A request for a quadrant the source does not hold: an output file with no
\* extension is still written.
C22_WitnessAbsent ==
    /\ ext.pc = "done"
    /\ ext.quadrant_names = <<"C">>
    /\ ext.hdul # {}
    /\ ext.written
    /\ ext.dest = <<>>

(***************************************************************************)
(* SpecSubset: one call of subset_catalog and the recording of its result  *)
(* on the rewritten manifest.                                              *)
(***************************************************************************)
MaxRows == 2

\* A catalog coordinate is a number <<v>> or NaN; every comparison with NaN
\* is false.
NaN == <<>>
Num(v) == <<v>>
Ge(x, y) == x # NaN /\ x[1] >= y
Le(x, y) == x # NaN /\ x[1] <= y

\* One term of a mask: the row lies in the closed box.
InBounds(row, bounds) ==
    /\ Ge(row.ra, bounds.ra[1])
    /\ Le(row.ra, bounds.ra[2])
    /\ Ge(row.dec, bounds.dec[1])
    /\ Le(row.dec, bounds.dec[2])

ExtMask(row) == InBounds(row, sub_cat.extended)
CoreMask(row) == InBounds(row, sub_cat.core)

CoreSelectedCoreOnly(row) == CoreMask(row)

\* The mask of core_ids: ext_mask & core_mask.
CoreSelected(row) == ExtMask(row) /\ CoreMask(row)

\* table[id_col][mask]: the ids of the selected rows, in table order.
Ids(rows) == [i \in 1..Len(rows) |-> rows[i].id]

\* Table.read(catalog_path).
TableRead ==
    /\ sub_cat.pc = "read"
    /\ sub_cat.readable
    /\ sub_cat' = [sub_cat EXCEPT !.pc = "write"]
    /\ UNCHANGED <<readerVars, extractVars, task, geo, qidx, res, fan, wf, ext>>

TableReadFails ==
    /\ sub_cat.pc = "read"
    /\ ~sub_cat.readable
    /\ sub_cat' = [sub_cat EXCEPT !.pc = "raised"]
    /\ UNCHANGED <<readerVars, extractVars, task, geo, qidx, res, fan, wf, ext>>

\* subset = table[ext_mask]; subset.write(dest_path, overwrite=True).
WriteSubset ==
    /\ sub_cat.pc = "write"
    /\ sub_cat' = [sub_cat EXCEPT !.pc = "ids",
                       !.dest = SelectSeq(sub_cat.table, ExtMask)]
    /\ UNCHANGED <<readerVars, extractVars, task, geo, qidx, res, fan, wf, ext>>

\* all_ids, core_ids and the return.
ReturnIds ==
    /\ sub_cat.pc = "ids"
    /\ sub_cat' = [sub_cat EXCEPT !.pc = "returned",
                       !.all_ids = Ids(SelectSeq(sub_cat.table, ExtMask)),
                       !.core_ids = Ids(SelectSeq(sub_cat.table, CoreSelected))]
    /\ UNCHANGED <<readerVars, extractVars, task, geo, qidx, res, fan, wf, ext>>

\* The caller builds the rewritten manifest with the two lists.
RecordIds ==
    /\ sub_cat.pc = "returned"
    /\ sub_cat' = [sub_cat EXCEPT !.pc = "recorded",
                       !.manifest = [source_ids |-> sub_cat.all_ids,
                                     core_source_ids |-> sub_cat.core_ids]]
    /\ UNCHANGED <<readerVars, extractVars, task, geo, qidx, res, fan, wf, ext>>

\* Catalog rows: two object ids at positions inside the core, on the edge of
\* the extended area, outside it, and with an undefined coordinate.
CatalogRows ==
    { [id |-> id, ra |-> p[1], dec |-> p[2]] :
        id \in {1, 2},
        p \in { <<Num(4), Num(4)>>, <<Num(2), Num(6)>>, <<Num(5), Num(5)>>,
                <<Num(7), Num(4)>>, <<Num(1), Num(1)>>, <<NaN, Num(4)>> } }

Catalogs == UNION { [1..n -> CatalogRows] : n \in 0..MaxRows }

\* The extended box with a core inside it, a core sticking out of it and a
\* core apart from it.
BoundsPairs ==
    LET Box(ra, dec) == [ra |-> ra, dec |-> dec]
    IN  { [extended |-> Box(<<2, 6>>, <<2, 6>>), core |-> c] :
            c \in { Box(<<3, 5>>, <<3, 5>>),
                    Box(<<5, 8>>, <<3, 5>>),
                    Box(<<7, 9>>, <<7, 9>>) } }

InitSubset ==
    /\ NoReader
    /\ NoExtraction
    /\ geo = [pc |-> "idle"]
    /\ NoIndexing
    /\ NoResolving
    /\ NoFanout
    /\ NoWorkflow
    /\ ext = [pc |-> "idle"]
    /\ \E table \in Catalogs, b \in BoundsPairs, readable \in BOOLEAN :
          sub_cat = [pc |-> "read", table |-> table, readable |-> readable,
                     extended |-> b.extended, core |-> b.core,
                     dest |-> <<>>, all_ids |-> <<>>, core_ids |-> <<>>,
                     manifest |-> [source_ids |-> <<>>, core_source_ids |-> <<>>]]

NextSubset ==
    \/ TableRead
    \/ TableReadFails
    \/ WriteSubset
    \/ ReturnIds
    \/ RecordIds

SpecSubset == InitSubset /\ [][NextSubset]_vars

\* How often id x occurs in a list of ids.
Count(ids, x) == Cardinality({i \in 1..Len(ids) : ids[i] = x})

\* Every id occurs in a at most as often as in b.
SubList(a, b) == \A x \in {a[i] : i \in 1..Len(a)} : Count(a, x) <= Count(b, x)

\* C23: for every catalog and every pair of bounds, contained or not, the core
\* ids that catalog subsetting returns, and that the rewritten manifest
\* records, are among the source ids, and the local subset has as many rows
\* as there are source ids.
C23_CoreIdsAmongSourceIds ==
    /\ sub_cat.pc \in {"returned", "recorded"} =>
        /\ SubList(sub_cat.core_ids, sub_cat.all_ids)
        /\ Len(sub_cat.dest) = Len(sub_cat.all_ids)
        /\ Ids(sub_cat.dest) = sub_cat.all_ids
    /\ sub_cat.pc = "recorded" =>
        /\ sub_cat.manifest.source_ids = sub_cat.all_ids
        /\ sub_cat.manifest.core_source_ids = sub_cat.core_ids
        /\ SubList(sub_cat.manifest.core_source_ids, sub_cat.manifest.source_ids)
        /\ Len(sub_cat.dest) = Len(sub_cat.manifest.source_ids)

\* A core sticking out of the extended area, with one row inside the core
\* but outside the extended area and one row in both.
C23_Witness ==
    /\ sub_cat.pc = "recorded"
    /\ sub_cat.core.ra = <<5, 8>>
    /\ sub_cat.table = << [id |-> 1, ra |-> Num(7), dec |-> Num(4)],
                          [id |-> 2, ra |-> Num(5), dec |-> Num(5)] >>
    /\ sub_cat.manifest.source_ids = <<2>>
    /\ sub_cat.manifest.core_source_ids = <<2>>
    /\ Len(sub_cat.dest) = 1

(***************************************************************************)
(* The rewritten manifests of extract_all_subtiles_for_tile, checked under *)
(* SpecExtract.                                                            *)
(***************************************************************************)

\* A path of a rewritten manifest is relative: it does not start with the
\* remote scheme nor at the filesystem root.
Relative(p) == p # <<>> /\ p[1] \notin {"s3://", "/", ""}

\* The identity of a quadrant reference.
Identity(q) == <<q.quadrant, q.obs_id, q.dither, q.ccd>>

\* How many references of a list carry a given identity.
Occurrences(qs, id) == Cardinality({k \in 1..Len(qs) : Identity(qs[k]) = id})

\* C24: every manifest written by extraction has relative quadrant paths,
\* science, background and weight under exposures/ and PSF under psf/, and
\* a relative catalog reference; its tile, sub-tile position and sky bounds
\* are the input's, and it has as many quadrant references as the input,
\* each identity (quadrant, obs_id, dither, ccd) as often as in the input.
C24_RewrittenManifestIsRelativeAndFramed ==
    \A t \in Tiles : \A i \in 1..Len(rewritten[t]) :
        LET r == rewritten[t][i]
            m == manifests[t][i]
        IN  /\ r.tile_id = t
            /\ r.sub = m.sub
            /\ r.sky_bounds = m.sky_bounds
            /\ Relative(r.source_catalog)
            /\ Len(r.quadrants) = Len(m.quadrants)
            /\ \A k \in 1..Len(m.quadrants) :
                  Occurrences(r.quadrants, Identity(m.quadrants[k]))
                    = Occurrences(m.quadrants, Identity(m.quadrants[k]))
            /\ \A k \in 1..Len(r.quadrants) :
                  LET q == r.quadrants[k]
                  IN  /\ \A p \in {q.sci_path, q.bkg_path, q.wgt_path} :
                            p # <<>> => Relative(p) /\ p[1] = "exposures"
                      /\ q.psf_path # <<>> =>
                            Relative(q.psf_path) /\ q.psf_path[1] = "psf"

\* A manifest of three quadrants of two exposures, all given by remote or
\* absolute paths, has been rewritten.
C24_Witness ==
    \E i \in 1..Len(rewritten["t1"]) :
        /\ manifests["t1"][i].quadrants = IndexRefs
        /\ manifests["t1"][i].source_catalog = S3Uri("a", "cat")
        /\ Len(rewritten["t1"][i].quadrants) = 3
        /\ rewritten["t1"][i].quadrants[3].wgt_path
             = <<"exposures", "o1_01_1_wgt.fits">>
        /\ rewritten["t1"][i].quadrants[3].bkg_path = <<>>

\* The non-empty paths a rewritten manifest records: each quadrant's four
\* product paths and the catalog reference.
RecordedPaths(r) ==
    ({r.source_catalog}
       \cup UNION {{r.quadrants[k].sci_path, r.quadrants[k].bkg_path,
                    r.quadrants[k].wgt_path, r.quadrants[k].psf_path}
                   : k \in 1..Len(r.quadrants)}) \ {<<>>}

\* The quadrant paths alone.
RecordedQuadrantPaths(r) == RecordedPaths(r) \ {r.source_catalog}

\* C25: once the extraction of a tile has completed, every non-empty path
\* recorded in a rewritten manifest, the catalog reference included, names
\* a file that exists inside that sub-tile's directory.
C25_SubtileDirsSelfContained ==
    \A t \in Tiles :
        run[t].pc = "done" =>
            \A i \in 1..Len(rewritten[t]) :
                \A p \in RecordedPaths(rewritten[t][i]) :
                    SubtileDir(t, rewritten[t][i].sub) \o p \in DOMAIN files

\* What does hold: the quadrant paths name existing files, and so does the
\* catalog reference of a manifest that had a catalog.
C25_SelfContainedButForMissingCatalog ==
    \A t \in Tiles :
        run[t].pc = "done" =>
            \A i \in 1..Len(rewritten[t]) :
                LET r == rewritten[t][i]
                IN  /\ \A p \in RecordedQuadrantPaths(r) :
                          SubtileDir(t, r.sub) \o p \in DOMAIN files
                    /\ manifests[t][i].source_catalog # NoPath =>
                          SubtileDir(t, r.sub) \o r.source_catalog
                              \in DOMAIN files

\* An extraction has completed for a manifest without catalog reference
\* whose rewritten manifest records catalog.fits.
C25_DanglingCatalog ==
    /\ run["t1"].pc = "done"
    /\ \E i \in 1..Len(rewritten["t1"]) :
          /\ manifests["t1"][i].source_catalog = NoPath
          /\ manifests["t1"][i].quadrants # <<>>
          /\ rewritten["t1"][i].source_catalog = <<"catalog.fits">>
          /\ CatalogPath("t1", manifests["t1"][i]) \notin DOMAIN files

(***************************************************************************)
(* The order of the steps of extract_all_subtiles_for_tile, read from the  *)
(* log of the run.                                                         *)
(***************************************************************************)

\* The positions of the log of tile t holding an event of one kind.
EventsOf(t, ev) == {k \in 1..Len(run[t].log) : run[t].log[k].ev = ev}

\* The registered jobs of tile t: the (source, destination) pairs of its
\* source index.
Registered(t) ==
    UNION {{<<run[t].index[i].src, run[t].index[i].jobs[k].dest>>
            : k \in 1..Len(run[t].index[i].jobs)}
           : i \in 1..Len(run[t].index)}

\* Job event k of tile t ran between the materialization of its own source
\* and the end of that source's turn: an earlier event made the source
\* local with no end of turn in between, and the file the job opened was a
\* copy of that source.
RanOnOwnSource(t, k) ==
    LET e == run[t].log[k]
    IN  /\ \E a \in EventsOf(t, "ensure") :
              /\ a < k
              /\ run[t].log[a].src = e.src
              /\ \A u \in EventsOf(t, "unlink") : ~(a < u /\ u < k)
        /\ e.read = e.src

\* Every job that ran was registered and ran once, and the manifests come
\* after every job.
JobsOnceBeforeManifests(t) ==
    /\ \A k \in EventsOf(t, "job") :
          /\ <<run[t].log[k].src, run[t].log[k].path>> \in Registered(t)
          /\ \A k2 \in EventsOf(t, "job") :
                run[t].log[k2].path = run[t].log[k].path => k2 = k
    /\ \A d \in {j[2] : j \in Registered(t)} :
          Cardinality({j \in Registered(t) : j[2] = d}) = 1
    /\ EventsOf(t, "manifest") # {} =>
          /\ \A j \in Registered(t) :
                \E k \in EventsOf(t, "job") :
                    <<run[t].log[k].src, run[t].log[k].path>> = j
          /\ \A k \in EventsOf(t, "job"), w \in EventsOf(t, "manifest") : k < w

\* C26: every registered job runs exactly once, between the materialization
\* of its source file and the deletion of that copy; every destination is
\* registered under one source; the manifests are written after all jobs.
C26_JobsRunOnceOnTheirSource ==
    \A t \in Tiles :
        /\ JobsOnceBeforeManifests(t)
        /\ \A k \in EventsOf(t, "job") : RanOnOwnSource(t, k)

\* What does hold whatever the cache held at the start: the order of the
\* steps, each job reading the file found at its source's cache path.
C26_JobsRunOnceInOrder ==
    \A t \in Tiles :
        /\ JobsOnceBeforeManifests(t)
        /\ \A k \in EventsOf(t, "job") :
              \E a \in EventsOf(t, "ensure") :
                  /\ a < k
                  /\ run[t].log[a].src = run[t].log[k].src
                  /\ \A u \in EventsOf(t, "unlink") : ~(a < u /\ u < k)

\* And from a cache that is empty at the start every job reads a copy of its
\* own source.
C26_ColdCacheJobsRunOnTheirSource ==
    \A t \in Tiles :
        warm[t] = {} => \A k \in EventsOf(t, "job") : RanOnOwnSource(t, k)

\* A job registered under s3://b/det has run on the copy of s3://a/det that
\* the cache held at the start.
C26_JobOnForeignCopy ==
    \E k \in EventsOf("t1", "job") :
        /\ run["t1"].log[k].src = S3Uri("b", "det")
        /\ run["t1"].log[k].read = S3Uri("a", "det")

\* A source named by a legacy reference that is not the first of its group
\* has not been downloaded when the extraction returns, the cache having
\* been empty at the start.
C5_SourceNeverDownloaded ==
    /\ run["t1"].pc = "done"
    /\ warm["t1"] = {}
    /\ S3Uri("a", "det2") \in ImageSources("t1")
    /\ DownloadsOf("t1", S3Uri("a", "det2")) = 0

(***************************************************************************)
(* Which source a quadrant's output comes from.                            *)
(***************************************************************************)

\* The input references of a manifest in the order of its templates: group
\* by group.
GroupedOrder(m) ==
    LET gs == ExposureGroups(m)
    IN  Flatten([i \in 1..Len(gs) |-> gs[i].qrefs])

\* The four products of a reference: its source path and the path a
\* template gives.
Products == {"sci_path", "bkg_path", "wgt_path", "psf_path"}

\* A job of tile t registered under source src, writing dest, whose name
\* list holds quadrant, has run.
ProducedBy(t, dest, src, quadrant) ==
    /\ \E i \in 1..Len(run[t].index) :
          /\ run[t].index[i].src = src
          /\ \E k \in 1..Len(run[t].index[i].jobs) :
                LET j == run[t].index[i].jobs[k]
                IN  /\ j.dest = dest
                    /\ \E n \in 1..Len(j.names) : j.names[n] = quadrant
    /\ \E k \in EventsOf(t, "job") :
          run[t].log[k].src = src /\ run[t].log[k].path = dest

\* The n-th reference of the i-th manifest of tile t gets, for each product
\* it has a source path for, an output produced from that source path.
OutputFromOwnSource(t, i, n) ==
    LET m == manifests[t][i]
        q == GroupedOrder(m)[n]
        r == rewritten[t][i].quadrants[n]
    IN  \A x \in Products :
            q[x] # NoPath =>
                /\ r[x] # <<>>
                /\ ProducedBy(t, SubtileDir(t, m.sub) \o r[x], q[x], q.quadrant)

\* C27: when the extraction of a tile has completed, for every quadrant
\* reference of an input manifest and every product it has a source path
\* for, the output file the rewritten manifest assigns to it was produced by
\* a job reading that reference's own source path and naming its quadrant,
\* whatever paths the references grouped under one exposure key carry.
C27_OutputFromOwnSourcePath ==
    \A t \in Tiles :
        run[t].pc = "done" =>
            \A i \in 1..Len(rewritten[t]) :
                \A n \in 1..Len(rewritten[t][i].quadrants) :
                    OutputFromOwnSource(t, i, n)

\* What does hold: the same for the manifests whose quadrants share their
\* source paths within each exposure key.
C27_OutputFromOwnSourcePathWhenShared ==
    \A t \in Tiles :
        run[t].pc = "done" =>
            \A i \in 1..Len(rewritten[t]) :
                SharedPaths(manifests[t][i]) =>
                    \A n \in 1..Len(rewritten[t][i].quadrants) :
                        OutputFromOwnSource(t, i, n)

\* A completed extraction of the legacy references: the second one is given
\* the science output that was read from the first one's file, and no
\* weight output although it names a weight file.
C27_OutputFromForeignSource ==
    /\ run["t1"].pc = "done"
    /\ manifests["t1"][1].quadrants = LegacyRefs
    /\ rewritten["t1"][1].quadrants[2].sci_path = <<"exposures", "___sci.fits">>
    /\ ProducedBy("t1", <<"t1", "0_0", "exposures", "___sci.fits">>,
                  S3Uri("a", "det"), "TBD")
    /\ ~ProducedBy("t1", <<"t1", "0_0", "exposures", "___sci.fits">>,
                   S3Uri("a", "det2"), "TBD")
    /\ rewritten["t1"][1].quadrants[2].wgt_path = <<>>

(***************************************************************************)
(* Sources given as local paths.                                           *)
(***************************************************************************)

\* C28: extraction deletes only what it downloaded into the tile's cache:
\* in every state, and so when the operation returns, each source given as
\* a local path still exists with its content, it has never been downloaded
\* or copied into a cache, and whatever the extraction removed or wrote
\* lies under its tile's directory.
C28_LocalSourcesKept ==
    /\ \A u \in LocalSources :
          /\ LocalPathOf(u) \in DOMAIN files
          /\ files[LocalPathOf(u)] = ObjectAt(u)
    /\ \A t \in Tiles :
          /\ \A k \in 1..Len(dl[t]) : IsS3(dl[t][k].uri)
          /\ \A p \in touched[t] : IsRelativeTo(p, <<t>>)
          /\ \A k \in EventsOf(t, "ensure") :
                ~IsS3(run[t].log[k].src) =>
                    run[t].log[k].path = LocalPathOf(run[t].log[k].src)

\* An extraction has returned after reading a local weight file and a local
\* catalog in place and deleting the copies of the remote files it fetched.
C28_Witness ==
    /\ run["t1"].pc = "done"
    /\ manifests["t1"][1].source_catalog = LocalSrc("cat")
    /\ \E k \in EventsOf("t1", "job") :
          /\ run["t1"].log[k].src = LocalSrc("wgt")
          /\ run["t1"].log[k].read = LocalSrc("wgt")
    /\ \E k \in EventsOf("t1", "unlink") :
          run["t1"].log[k].src = LocalSrc("wgt")
    /\ Len(dl["t1"]) > 0
    /\ files[CatalogPath("t1", manifests["t1"][1])].src = LocalSrc("cat")
    /\ LocalPathOf(LocalSrc("wgt")) \in DOMAIN files
    /\ LocalPathOf(LocalSrc("cat")) \in DOMAIN files

(***************************************************************************)
(* SpecCompare: the manifests of one tile extracted twice from an empty    *)
(* cache, by extract_subtile applied to each manifest in turn (under       *)
(* extraction_dir/t1) and then by extract_all_subtiles_for_tile (the same  *)
(* manifests, as tile t2, so that neither finds the other's files).        *)
(***************************************************************************)

StreamedTile == "t2"

\* The manifests before the i-th have been extracted: extract_subtile(m_i)
\* is called after extract_subtile(m_{i-1}) has returned.
InTurn(i) == \A k \in 1..(i - 1) : task[k].pc = "done"

\* The per-sub-tile extractions have all returned or one has raised.
StreamingTurn ==
    \/ \A i \in DOMAIN task : task[i].pc = "done"
    \/ \E i \in DOMAIN task : task[i].pc = "aborted"

InitCompare ==
    /\ NoReader
    /\ \E ms \in ManifestLists(MaxSubtiles, QuadrantLists) :
          manifests = [t \in Tiles |-> ms]
    /\ warm = [t \in Tiles |-> {}]
    /\ files = InitialFiles(warm)
    /\ dirs = InitialDirs(warm)
    /\ run = [t \in Tiles |->
                [pc |-> IF t = StreamedTile THEN "start" ELSE "idle",
                 index |-> <<>>, si |-> 0, ji |-> 0,
                 ki |-> 0, local |-> <<>>, err |-> "",
                 attempt |-> 1, log |-> <<>>]]
    /\ dl = [t \in Tiles |-> <<>>]
    /\ touched = [t \in Tiles |-> {}]
    /\ rewritten = [t \in Tiles |-> <<>>]
    /\ task = [i \in 1..Len(manifests[WorkflowTile]) |->
                 [pc |-> "start", work |-> <<>>, wi |-> 0, local |-> <<>>]]
    /\ NoPlanning

NextCompare ==
    \/ \E i \in DOMAIN task : InTurn(i) /\ TaskStart(i)
    \/ \E i \in DOMAIN task : InTurn(i) /\ TaskCheck(i)
    \/ \E i \in DOMAIN task : InTurn(i) /\ TaskDownload(i)
    \/ \E i \in DOMAIN task : InTurn(i) /\ TaskDownloadFails(i)
    \/ \E i \in DOMAIN task : InTurn(i) /\ TaskRead(i)
    \/ \E i \in DOMAIN task : InTurn(i) /\ TaskReadFails(i)
    \/ \E i \in DOMAIN task : InTurn(i) /\ TaskWrite(i)
    \/ StreamingTurn /\ Start(StreamedTile)
    \/ StreamingTurn /\ Ensure(StreamedTile)
    \/ StreamingTurn /\ EnsureFails(StreamedTile)
    \/ StreamingTurn /\ Job(StreamedTile)
    \/ StreamingTurn /\ JobFails(StreamedTile)
    \/ StreamingTurn /\ Unlink(StreamedTile)
    \/ StreamingTurn /\ CatEnsure(StreamedTile)
    \/ StreamingTurn /\ CatEnsureFails(StreamedTile)
    \/ StreamingTurn /\ Subset(StreamedTile)
    \/ StreamingTurn /\ SubsetFails(StreamedTile)
    \/ StreamingTurn /\ CatUnlink(StreamedTile)
    \/ StreamingTurn /\ WriteManifest(StreamedTile)
    \/ StreamingTurn /\ Cleanup(StreamedTile)

SpecCompare == InitCompare /\ [][NextCompare]_vars

\* The sub-tile directories of tile t: every file under extraction_dir/t
\* outside the cache, by its path below the tile directory.
SubtileFiles(t) ==
    LET ps == {p \in DOMAIN files : p[1] = t /\ ~IsRelativeTo(p, CacheDir(t))}
    IN  [q \in {SubSeq(p, 2, Len(p)) : p \in ps} |-> files[<<t>> \o q]]

\* The rewritten manifests of tile t, the tile's name apart.
ManifestsOf(t) ==
    [i \in 1..Len(rewritten[t]) |-> [rewritten[t][i] EXCEPT !.tile_id = "t"]]

BothReturned ==
    /\ \A i \in DOMAIN task : task[i].pc = "done"
    /\ run[StreamedTile].pc = "done"

\* C29: once both extractions of the same manifests (distinct sub-tile
\* positions) have returned, they have produced the same sub-tile
\* directories: the same output files with the same extracted extensions of
\* the same sources, and the same rewritten manifests.
C29_StreamingEqualsPerSubtile ==
    BothReturned =>
        /\ SubtileFiles(WorkflowTile) = SubtileFiles(StreamedTile)
        /\ ManifestsOf(WorkflowTile) = ManifestsOf(StreamedTile)

\* No two distinct remote sources of the manifests have the same cache
\* path.
NoCachePathShared ==
    \A u, v \in ImageSources(WorkflowTile) :
        CachePath(WorkflowTile, u) = CachePath(WorkflowTile, v) => u = v

\* What does hold: the two agree when no two sources share a cache path.
C29_StreamingEqualsPerSubtileOnDistinctCachePaths ==
    (BothReturned /\ NoCachePathShared) =>
        /\ SubtileFiles(WorkflowTile) = SubtileFiles(StreamedTile)
        /\ ManifestsOf(WorkflowTile) = ManifestsOf(StreamedTile)

\* Both have returned for a manifest naming s3://a/det and s3://b/det: the
\* per-sub-tile extraction wrote the second exposure's science file from the
\* cached copy of s3://a/det, the streaming one from s3://b/det.
C29_PerSubtileReadStaleCopy ==
    /\ BothReturned
    /\ <<WorkflowTile, "0_0", "exposures", "o1_01_1_sci.fits">> \in DOMAIN files
    /\ <<StreamedTile, "0_0", "exposures", "o1_01_1_sci.fits">> \in DOMAIN files
    /\ files[<<WorkflowTile, "0_0", "exposures", "o1_01_1_sci.fits">>].src
         = S3Uri("a", "det")
    /\ files[<<StreamedTile, "0_0", "exposures", "o1_01_1_sci.fits">>].src
         = S3Uri("b", "det")

(***************************************************************************)
(* SpecPipeline: one execution of shear_pipeline. A node of the workflow   *)
(* starts when every node whose output it takes has succeeded.             *)
(***************************************************************************)
MaxReads == 2
MaxManifests == 3

\* The tile_ids of the execution.
PipelineTiles == <<"t1", "t2">>

\* The nodes: the tasks of shear_pipeline, one read_det_footprints per work
\* item, and for each tile prepare_tile and one extract_subtile_task and one
\* infer_subtile per manifest.
PipelineNodes(reads, subs) ==
    {<<"resolve_run_id">>, <<"build_obs_index">>, <<"build_det_work_items">>,
     <<"merge_footprints">>, <<"assemble_results">>, <<"validate_results">>}
      \cup {<<"read_det_footprints", k>> : k \in 1..reads}
      \cup {<<"prepare_tile", i>> : i \in 1..Len(PipelineTiles)}
      \cup UNION {{<<"extract_subtile_task", i, s>> : s \in 1..subs[i]}
                  : i \in 1..Len(PipelineTiles)}
      \cup UNION {{<<"infer_subtile", i, s>> : s \in 1..subs[i]}
                  : i \in 1..Len(PipelineTiles)}

NodesNamed(name) == {n \in DOMAIN wf.status : n[1] = name}

InputsInferWithoutExtraction(n) ==
    IF n[1] = "build_det_work_items" THEN {<<"build_obs_index">>}
    ELSE IF n[1] = "read_det_footprints" THEN {<<"build_det_work_items">>}
    ELSE IF n[1] = "merge_footprints" THEN NodesNamed("read_det_footprints")
    ELSE IF n[1] = "prepare_tile"
    THEN {<<"build_obs_index">>, <<"merge_footprints">>, <<"resolve_run_id">>}
    ELSE IF n[1] = "extract_subtile_task"
    THEN {<<"prepare_tile", n[2]>>, <<"resolve_run_id">>}
    ELSE IF n[1] = "infer_subtile"
    THEN {<<"prepare_tile", n[2]>>, <<"resolve_run_id">>}
    ELSE IF n[1] = "assemble_results" THEN NodesNamed("infer_subtile")
    ELSE IF n[1] = "validate_results" THEN {<<"assemble_results">>}
    ELSE {}

\* The nodes whose outputs node n takes as inputs.
Inputs(n) ==
    IF n[1] = "build_det_work_items" THEN {<<"build_obs_index">>}
    ELSE IF n[1] = "read_det_footprints" THEN {<<"build_det_work_items">>}
    ELSE IF n[1] = "merge_footprints" THEN NodesNamed("read_det_footprints")
    ELSE IF n[1] = "prepare_tile"
    THEN {<<"build_obs_index">>, <<"merge_footprints">>, <<"resolve_run_id">>}
    ELSE IF n[1] = "extract_subtile_task"
    THEN {<<"prepare_tile", n[2]>>, <<"resolve_run_id">>}
    ELSE IF n[1] = "infer_subtile"
    THEN {<<"extract_subtile_task", n[2], n[3]>>, <<"prepare_tile", n[2]>>,
          <<"resolve_run_id">>}
    ELSE IF n[1] = "assemble_results" THEN NodesNamed("infer_subtile")
    ELSE IF n[1] = "validate_results" THEN {<<"assemble_results">>}
    ELSE {}

\* A node starts once all its inputs are there.
NodeStarts(n) ==
    /\ wf.pc = "running"
    /\ wf.status[n] = "waiting"
    /\ \A d \in Inputs(n) : wf.status[d] = "succeeded"
    /\ wf' = [wf EXCEPT !.status[n] = "running"]
    /\ UNCHANGED <<readerVars, extractVars, task, geo, qidx, res, fan, ext, sub_cat>>

\* A node returns its output.
NodeSucceeds(n) ==
    /\ wf.pc = "running"
    /\ wf.status[n] = "running"
    /\ wf' = [wf EXCEPT !.status[n] = "succeeded"]
    /\ UNCHANGED <<readerVars, extractVars, task, geo, qidx, res, fan, ext, sub_cat>>

\* A node raises for good: no node that takes its output will start.
NodeFails(n) ==
    /\ wf.pc = "running"
    /\ wf.status[n] = "running"
    /\ wf' = [wf EXCEPT !.status[n] = "failed"]
    /\ UNCHANGED <<readerVars, extractVars, task, geo, qidx, res, fan, ext, sub_cat>>

\* Executions over zero to MaxReads work items and up to MaxManifests
\* manifests, shared out between the tiles in every way.
InitPipeline ==
    /\ NoReader
    /\ NoExtraction
    /\ geo = [pc |-> "idle"]
    /\ NoIndexing
    /\ NoResolving
    /\ NoFanout
    /\ NoCalls
    /\ \E reads \in 0..MaxReads,
          subs \in {f \in [1..Len(PipelineTiles) -> 0..MaxManifests] :
                       f[1] + f[2] <= MaxManifests} :
            wf = [pc |-> "running", reads |-> reads, subs |-> subs,
                  status |-> [n \in PipelineNodes(reads, subs) |-> "waiting"]]

NextPipeline ==
    \/ \E n \in DOMAIN wf.status : NodeStarts(n)
    \/ \E n \in DOMAIN wf.status : NodeSucceeds(n)
    \/ \E n \in DOMAIN wf.status : NodeFails(n)

SpecPipeline == InitPipeline /\ [][NextPipeline]_vars

Started(n) == wf.status[n] # "waiting"
Finished(n) == wf.status[n] = "succeeded"

\* C30: in every execution the merge has started only if every header read
\* has finished, a tile's preparation only if the merge has, the inference
\* of a sub-tile only if the extraction of that sub-tile has, the assembly
\* only if every inference has, and the validation only if the assembly
\* has.
C30_WorkflowOrder ==
    /\ Started(<<"merge_footprints">>) =>
          \A n \in NodesNamed("read_det_footprints") : Finished(n)
    /\ \A n \in NodesNamed("prepare_tile") :
          Started(n) => Finished(<<"merge_footprints">>)
    /\ \A n \in NodesNamed("infer_subtile") :
          Started(n) => Finished(<<"extract_subtile_task", n[2], n[3]>>)
    /\ Started(<<"assemble_results">>) =>
          \A n \in NodesNamed("infer_subtile") : Finished(n)
    /\ Started(<<"validate_results">>) => Finished(<<"assemble_results">>)

\* Validation is running after two header reads and three sub-tiles.
C30_Witness ==
    /\ wf.reads = 2
    /\ wf.subs = <<2, 1>>
    /\ wf.status[<<"validate_results">>] = "running"

\* One sub-tile's inference runs while the extraction of another sub-tile
\* of the same tile has not started.
C30_WitnessIndependentSubtiles ==
    /\ wf.subs[1] = 2
    /\ wf.status[<<"infer_subtile", 1, 1>>] = "running"
    /\ wf.status[<<"extract_subtile_task", 1, 2>>] = "waiting"

====
